---- MODULE Spec2Model ----
(***************************************************************************)
(* Model of the banana-mcp image server: the call-tool dispatcher with its *)
(* rate limiter, the four tool handlers, the path guard and file helpers,  *)
(* and the Gemini provider adapter with its response parser.               *)
(*                                                                         *)
(* JavaScript strings are TLA+ strings; a character is a string of length  *)
(* one, read with SubSeq(s, i, i).  JSON values are tagged records.        *)
(***************************************************************************)
EXTENDS Integers, Sequences, FiniteSets, TLC

VARIABLES
    apiKey,        \* GeminiProvider.config.apiKey (GEMINI_API_KEY or '')
    logLevel,      \* Logger.level
    RATE_LIMIT_MAX,\* parsed RATE_LIMIT_PER_MINUTE
    now,           \* the clock read by Date.now(), in milliseconds
    rateLimitMap,  \* tool name -> list of accepted timestamps
    files,         \* the file system: absolute path -> content
    dirs,          \* the directories that exist
    calls,         \* tool calls dispatched since start
    history,       \* every dispatched call: its name, time, and whether accepted
    last,          \* the last tool call: its inputs and everything it did
    pIn,           \* provider harness: a response body and a requested size
    pOut           \* provider harness: the result of the operation applied

vars == <<apiKey, logLevel, RATE_LIMIT_MAX, now, rateLimitMap, files, dirs,
          calls, history, last, pIn, pOut>>

serverVars == <<apiKey, logLevel, RATE_LIMIT_MAX, now, rateLimitMap, files,
                dirs, calls, history, last>>

-----------------------------------------------------------------------------
(* Strings *)

CharAt(s, i) == SubSeq(s, i, i)

startsWith(s, prefix) ==
    /\ Len(s) >= Len(prefix)
    /\ SubSeq(s, 1, Len(prefix)) = prefix

endsWith(s, suffix) ==
    /\ Len(s) >= Len(suffix)
    /\ SubSeq(s, Len(s) - Len(suffix) + 1, Len(s)) = suffix

\* s.includes(sub)
includes(s, sub) ==
    \E i \in 1..(Len(s) - Len(sub) + 1) : SubSeq(s, i, i + Len(sub) - 1) = sub

\* s.indexOf(c) for a one-character c, 1-based; 0 when absent
RECURSIVE IndexFrom(_, _, _)
IndexFrom(s, c, i) ==
    IF i > Len(s) THEN 0
    ELSE IF CharAt(s, i) = c THEN i
    ELSE IndexFrom(s, c, i + 1)

\* s.split(c)
RECURSIVE split(_, _)
split(s, c) ==
    LET i == IndexFrom(s, c, 1) IN
    IF i = 0 THEN <<s>>
    ELSE <<SubSeq(s, 1, i - 1)>> \o split(SubSeq(s, i + 1, Len(s)), c)

\* parts.join(c)
RECURSIVE join(_, _)
join(parts, c) ==
    IF Len(parts) = 0 THEN ""
    ELSE IF Len(parts) = 1 THEN parts[1]
    ELSE parts[1] \o c \o join(Tail(parts), c)

Digits == <<"0", "1", "2", "3", "4", "5", "6", "7", "8", "9">>

IsDigit(c) == \E d \in 1..10 : Digits[d] = c

DigitVal(c) == (CHOOSE d \in 1..10 : Digits[d] = c) - 1

\* The value Number() gives for text that is not a number
NaN == -1

RECURSIVE DecimalValue(_, _)
DecimalValue(s, acc) ==
    IF s = "" THEN acc
    ELSE DecimalValue(Tail(s), acc * 10 + DigitVal(CharAt(s, 1)))

\* Number(s) on decimal digit strings; '' is 0, anything else is NaN
Number(s) ==
    IF s = "" THEN 0
    ELSE IF \A i \in 1..Len(s) : IsDigit(CharAt(s, i)) THEN DecimalValue(s, 0)
    ELSE NaN

\* String(n) / template interpolation of a non-negative integer
RECURSIVE ToStr(_)
ToStr(n) ==
    IF n < 10 THEN Digits[n + 1]
    ELSE ToStr(n \div 10) \o Digits[(n % 10) + 1]

\* The value of a destructured array element that is missing
Undefined == -2

parseSize(size) ==
    LET p == split(size, "x") IN
    [width  |-> Number(p[1]),
     height |-> IF Len(p) >= 2 THEN Number(p[2]) ELSE Undefined]

-----------------------------------------------------------------------------
(* JSON values *)

JUndef == [t |-> "undef"]
JNull == [t |-> "null"]
JBool(b) == [t |-> "bool", b |-> b]
JNum(n) == [t |-> "num", n |-> n]
JStr(s) == [t |-> "str", s |-> s]
JArr(a) == [t |-> "arr", a |-> a]
JObj(o) == [t |-> "obj", o |-> o]

\* JavaScript truthiness
Truthy(v) ==
    CASE v.t = "undef" -> FALSE
      [] v.t = "null" -> FALSE
      [] v.t = "bool" -> v.b
      [] v.t = "num" -> v.n # 0
      [] v.t = "str" -> v.s # ""
      [] OTHER -> TRUE

\* v.k : reading a property of null or undefined throws a TypeError, which
\* the callers test with Nullish before reading
Nullish(v) == v.t \in {"undef", "null"}

Get(v, k) ==
    IF v.t = "obj" /\ k \in DOMAIN v.o THEN v.o[k] ELSE JUndef

\* v?.k
OptGet(v, k) == IF Nullish(v) THEN JUndef ELSE Get(v, k)

IsString(v) == v.t = "str"

IsArray(v) == v.t = "arr"

-----------------------------------------------------------------------------
(* Logger *)

LOG_LEVELS == [debug |-> 0, info |-> 1, warn |-> 2, error |-> 3]

shouldLog(levelOfLogger, level) == LOG_LEVELS[level] >= LOG_LEVELS[levelOfLogger]

\* One console.error line: the level, the message and the extra argument
\* (text, a JSON value, or an Error's message)
LogText(level, message, text) == [level |-> level, message |-> message, text |-> text]

LogJson(level, message, json) == [level |-> level, message |-> message, json |-> json]

LogOnly(level, message) == [level |-> level, message |-> message]

\* The lines the logger lets through at its level
Logged(levelOfLogger, entries) ==
    SelectSeq(entries, LAMBDA e : shouldLog(levelOfLogger, e.level))

-----------------------------------------------------------------------------
(* Provider adapter: response parsing *)

\* An ImageGenerationResult
Result(data, format, sz, log) ==
    [ok |-> TRUE, data |-> data, format |-> format,
     width |-> sz.width, height |-> sz.height, log |-> log]

\* A thrown exception: its class and message
Thrown(type, message, log) ==
    [ok |-> FALSE, type |-> type, message |-> message, log |-> log]

ParseErrorMessage ==
    "Unable to parse image from Gemini response. Expected format: candidates[0].content.parts[].inline_data.data"

GenericParseErrorMessage ==
    "Unable to parse image from Gemini response. Check geminiProvider.ts parseResponse()"

NullReadMessage(k) == "Cannot read properties of null (reading '" \o k \o "')"

NotIterableMessage == "candidate.content.parts is not iterable"

NoHit == [r |-> "none"]

Hit(data) == [r |-> "hit", data |-> data]

Raise(message) == [r |-> "throw", message |-> message]

\* What for...of can iterate: arrays, and strings character by character
Iterable(v) == v.t \in {"arr", "str"}

Elements(v) ==
    IF v.t = "arr" THEN v.a
    ELSE [i \in 1..Len(v.s) |-> JStr(CharAt(v.s, i))]

\* for (const part of candidate.content.parts)
RECURSIVE ScanParts(_, _)
ScanParts(parts, j) ==
    IF j > Len(parts) THEN NoHit
    ELSE LET part == parts[j] IN
         IF Nullish(part) THEN Raise(NullReadMessage("inline_data"))
         ELSE LET d == OptGet(Get(part, "inline_data"), "data") IN
              IF Truthy(d) THEN Hit(d) ELSE ScanParts(parts, j + 1)

\* A scan that reads candidates[0] only
ScanFirstCandidate(candidates, i) ==
    IF Len(candidates) = 0 THEN NoHit
    ELSE IF Nullish(candidates[1]) THEN Raise(NullReadMessage("content"))
    ELSE LET parts == OptGet(Get(candidates[1], "content"), "parts") IN
         IF ~Truthy(parts) THEN NoHit
         ELSE IF ~Iterable(parts) THEN Raise(NotIterableMessage)
         ELSE ScanParts(Elements(parts), 1)

\* for (const candidate of response.candidates)
RECURSIVE ScanCandidates(_, _)
ScanCandidates(candidates, i) ==
    IF i > Len(candidates) THEN NoHit
    ELSE LET candidate == candidates[i] IN
         IF Nullish(candidate) THEN Raise(NullReadMessage("content"))
         ELSE LET parts == OptGet(Get(candidate, "content"), "parts") IN
              IF ~Truthy(parts) THEN ScanCandidates(candidates, i + 1)
              ELSE IF ~Iterable(parts) THEN Raise(NotIterableMessage)
              ELSE LET r == ScanParts(Elements(parts), 1) IN
                   IF r.r = "none" THEN ScanCandidates(candidates, i + 1)
                   ELSE r

UrlOrBase64(s) == IF startsWith(s, "http") THEN "url" ELSE "base64"

\* GeminiProvider.parseResponse of the official-format provider
parseResponse(response, size) ==
    LET sz == parseSize(size) IN
    IF Nullish(response)
    THEN Thrown("TypeError", NullReadMessage("candidates"), <<>>)
    ELSE
    LET c == Get(response, "candidates")
        nested == IF Truthy(c) /\ IsArray(c) THEN ScanCandidates(c.a, 1) ELSE NoHit
        image == Get(response, "image")
        data == Get(response, "data")
        url == Get(response, "url")
    IN  CASE nested.r = "hit" -> Result(nested.data, "base64", sz, <<>>)
          [] nested.r = "throw" -> Thrown("TypeError", nested.message, <<>>)
          [] OTHER ->
             IF Truthy(image) /\ IsString(image)
             THEN Result(image, UrlOrBase64(image.s), sz, <<>>)
             ELSE IF Truthy(data) /\ IsString(data)
             THEN Result(data, UrlOrBase64(data.s), sz, <<>>)
             ELSE IF Truthy(url) /\ IsString(url)
             THEN Result(url, "url", sz, <<>>)
             ELSE Thrown("Error", ParseErrorMessage,
                         <<LogJson("error", "Unable to parse Gemini response:", response)>>)

NotAFunctionMessage == "imageData.startsWith is not a function"

\* GeminiProvider.parseResponse of the earlier generic adapter
parseResponseGeneric(response, size) ==
    LET sz == parseSize(size) IN
    IF Nullish(response)
    THEN Thrown("TypeError", NullReadMessage("image"), <<>>)
    ELSE
    LET image == Get(response, "image")
        data == Get(response, "data")
        url == Get(response, "url")
        resultImage == OptGet(Get(response, "result"), "image")
        outputImage == OptGet(Get(response, "output"), "image")
        nestedImage == IF Truthy(resultImage) THEN resultImage ELSE outputImage
        images == Get(response, "images")
    IN  IF Truthy(image) /\ IsString(image)
        THEN Result(image, UrlOrBase64(image.s), sz, <<>>)
        ELSE IF Truthy(data) /\ IsString(data)
        THEN Result(data, UrlOrBase64(data.s), sz, <<>>)
        ELSE IF Truthy(url) /\ IsString(url)
        THEN Result(url, "url", sz, <<>>)
        ELSE IF Truthy(resultImage) \/ Truthy(outputImage)
        THEN IF IsString(nestedImage)
             THEN Result(nestedImage, UrlOrBase64(nestedImage.s), sz, <<>>)
             ELSE Thrown("TypeError", NotAFunctionMessage, <<>>)
        ELSE IF IsArray(images) /\ Len(images.a) > 0
        THEN LET imageData == images.a[1] IN
             IF IsString(imageData)
             THEN Result(imageData, UrlOrBase64(imageData.s), sz, <<>>)
             ELSE IF Nullish(imageData)
             THEN Thrown("TypeError", NullReadMessage("url"), <<>>)
             ELSE Result(IF Truthy(Get(imageData, "url")) THEN Get(imageData, "url")
                         ELSE Get(imageData, "data"),
                         "base64", sz, <<>>)
        ELSE Thrown("Error", GenericParseErrorMessage, <<>>)

-----------------------------------------------------------------------------
(* Provider adapter: request construction and the remote call *)

baseUrl == "https://generativelanguage.googleapis.com"

model == "gemini-2.5-flash-image"

\* An adapter that reports itself configured whatever the credential
isConfiguredAlways(key) == baseUrl # ""

\* GeminiProvider.isConfigured
isConfigured(key) == key # "" /\ baseUrl # ""

\* A derivation whose wide band starts above the ratio 1.7
getAspectRatioAbove(width, height) ==
    IF width = height THEN "1:1"
    ELSE IF width > height
    THEN IF 10 * width >= 14 * height /\ 10 * width <= 16 * height THEN "3:2"
         ELSE IF 10 * width > 17 * height THEN "16:9"
         ELSE "4:3"
    ELSE IF 10 * height >= 14 * width /\ 10 * height <= 16 * width THEN "2:3"
         ELSE IF 10 * height > 17 * width THEN "9:16"
         ELSE "3:4"

\* GeminiProvider.getAspectRatio; w / h >= 1.4 is 10 * w >= 14 * h: the
\* quotient of two integers of this size is never within a rounding error
\* of a band edge without being equal to it
getAspectRatio(width, height) ==
    IF width = height THEN "1:1"
    ELSE IF width > height
    THEN IF 10 * width >= 14 * height /\ 10 * width <= 16 * height THEN "3:2"
         ELSE IF 10 * width >= 17 * height THEN "16:9"
         ELSE "4:3"
    ELSE IF 10 * height >= 14 * width /\ 10 * height <= 16 * width THEN "2:3"
         ELSE IF 10 * height >= 17 * width THEN "9:16"
         ELSE "3:4"

\* A tier taken from the width alone
getImageSizeOfWidth(width, height) ==
    IF width <= 1024 THEN "1K"
    ELSE IF width <= 2048 THEN "2K"
    ELSE "4K"

\* GeminiProvider.getImageSize
getImageSize(width, height) ==
    LET maxDim == IF width >= height THEN width ELSE height IN
    IF maxDim <= 1024 THEN "1K"
    ELSE IF maxDim <= 2048 THEN "2K"
    ELSE "4K"

styleDescriptions ==
    [flat |-> "flat design style", photoreal |-> "photorealistic style",
     anime |-> "anime art style", pixel |-> "pixel art style"]

StyleText(style) ==
    IF style = "3d" THEN "3D rendered style"
    ELSE IF style \in DOMAIN styleDescriptions THEN styleDescriptions[style]
    ELSE style

\* options.size || '1024x1024'
SizeOf(options) == IF options.size = "" THEN "1024x1024" ELSE options.size

\* A request body whose prompt gets the style text for every style that is
\* set, 'illustration' too
buildRequestBodyStyled(options) ==
    LET sz == parseSize(SizeOf(options))
        styled == IF options.style # ""
                  THEN StyleText(options.style) \o ", " \o options.prompt
                  ELSE options.prompt
        enhancedPrompt == IF options.background = "transparent"
                          THEN styled \o ", transparent background"
                          ELSE styled
    IN  [contents |-> <<[parts |-> <<[text |-> enhancedPrompt]>>]>>,
         generationConfig |->
            [responseModalities |-> <<"IMAGE">>,
             imageConfig |-> [aspectRatio |-> getAspectRatio(sz.width, sz.height),
                              imageSize |-> getImageSize(sz.width, sz.height)]]]

\* GeminiProvider.buildRequestBody
buildRequestBody(options) ==
    LET sz == parseSize(SizeOf(options))
        styled == IF options.style # "" /\ options.style # "illustration"
                  THEN StyleText(options.style) \o ", " \o options.prompt
                  ELSE options.prompt
        enhancedPrompt == IF options.background = "transparent"
                          THEN styled \o ", transparent background"
                          ELSE styled
    IN  [contents |-> <<[parts |-> <<[text |-> enhancedPrompt]>>]>>,
         generationConfig |->
            [responseModalities |-> <<"IMAGE">>,
             imageConfig |-> [aspectRatio |-> getAspectRatio(sz.width, sz.height),
                              imageSize |-> getImageSize(sz.width, sz.height)]]]

endpoint == baseUrl \o "/v1beta/models/" \o model \o ":generateContent"

\* A POST that carries the credential in the query string of the URL
ProviderRequestKeyInQuery(key, options) ==
    [url |-> endpoint \o "?key=" \o key, method |-> "POST",
     headers |-> [contentType |-> "application/json", xGoogApiKey |-> ""],
     body |-> buildRequestBody(options)]

\* The POST that generateImage sends: fetch(endpoint, {method, headers, body})
ProviderRequest(key, options) ==
    [url |-> endpoint, method |-> "POST",
     headers |-> [contentType |-> "application/json", xGoogApiKey |-> key],
     body |-> buildRequestBody(options)]

\* What the remote end does with one request
NetError == [kind |-> "neterr"]

HttpError(status, statusText, text) ==
    [kind |-> "http", status |-> status, statusText |-> statusText, text |-> text]

BadJson == [kind |-> "badjson"]

HttpOk(body) == [kind |-> "ok", body |-> body]

NotConfiguredMessage ==
    "Gemini provider not configured. Set GEMINI_API_KEY in your .env file"

WrapMessage(message) == "Image generation failed: " \o message

\* The catch block of generateImage: log, then rethrow wrapped
Rethrow(message, log, requests) ==
    [ok |-> FALSE, type |-> "Error", message |-> WrapMessage(message),
     log |-> log \o <<LogText("error", "Failed to generate image with Gemini:", message)>>,
     requests |-> requests]

\* The end of the try block of generateImage: the parsed response r is
\* returned, a throw of parseResponse goes to the catch block
Received(r, request, log) ==
    IF r.ok
    THEN [ok |-> TRUE, data |-> r.data, format |-> r.format,
          width |-> r.width, height |-> r.height,
          log |-> log \o r.log, requests |-> <<request>>]
    ELSE Rethrow(r.message, log \o r.log, <<request>>)

\* A fetch whose status is not checked: the body of an error response goes
\* to response.json()
SentUnchecked(request, remote, size) ==
    LET log0 == <<LogText("debug", "Gemini Nano Banana API request:",
                          request.url \o " " \o model),
                  LogJson("debug", "Request body:", request.body)>>
    IN  CASE remote.kind = "neterr" ->
               Rethrow("fetch failed", log0, <<request>>)
          [] remote.kind \in {"http", "badjson"} ->
               Rethrow("Unexpected token in JSON", log0, <<request>>)
          [] OTHER ->
               Received(parseResponse(remote.body, size), request,
                        log0 \o <<LogOnly("debug", "Gemini API response received")>>)

\* A fetch that is sent again when the first attempt gets no response
SentWithRetry(request, remote, size) ==
    LET log0 == <<LogText("debug", "Gemini Nano Banana API request:",
                          request.url \o " " \o model),
                  LogJson("debug", "Request body:", request.body)>>
    IN  CASE remote.kind = "neterr" ->
               Rethrow("fetch failed", log0, <<request, request>>)
          [] remote.kind = "http" ->
               Rethrow("Gemini API error: " \o ToStr(remote.status) \o " " \o remote.statusText,
                       log0 \o <<LogText("error", "Gemini API error:", remote.text)>>,
                       <<request>>)
          [] remote.kind = "badjson" ->
               Rethrow("Unexpected token in JSON", log0, <<request>>)
          [] OTHER ->
               Received(parseResponse(remote.body, size), request,
                        log0 \o <<LogOnly("debug", "Gemini API response received")>>)

\* generateImage from the debug lines on: the fetch of request, answered
\* by remote
Sent(request, remote, size) ==
    LET log0 == <<LogText("debug", "Gemini Nano Banana API request:",
                          request.url \o " " \o model),
                  LogJson("debug", "Request body:", request.body)>>
    IN  CASE remote.kind = "neterr" ->
               Rethrow("fetch failed", log0, <<request>>)
          [] remote.kind = "http" ->
               Rethrow("Gemini API error: " \o ToStr(remote.status) \o " " \o remote.statusText,
                       log0 \o <<LogText("error", "Gemini API error:", remote.text)>>,
                       <<request>>)
          [] remote.kind = "badjson" ->
               Rethrow("Unexpected token in JSON", log0, <<request>>)
          [] OTHER ->
               Received(parseResponse(remote.body, size), request,
                        log0 \o <<LogOnly("debug", "Gemini API response received")>>)

\* GeminiProvider.generateImage
generateImage(key, options, remote) ==
    IF ~isConfigured(key)
    THEN [ok |-> FALSE, type |-> "Error", message |-> NotConfiguredMessage,
          log |-> <<>>, requests |-> <<>>]
    ELSE Sent(ProviderRequest(key, options), remote, SizeOf(options))

-----------------------------------------------------------------------------
(* Path guard (POSIX path module) *)

PROJECT_ROOT == "/srv/banana-mcp"

OUTPUT_DIR == "./outputs"

\* Drop '' and '.', and let '..' remove the segment before it
RECURSIVE NormalizeSegments(_, _)
NormalizeSegments(segments, acc) ==
    IF Len(segments) = 0 THEN acc
    ELSE LET seg == segments[1] IN
         IF seg = "" \/ seg = "." THEN NormalizeSegments(Tail(segments), acc)
         ELSE IF seg = ".."
         THEN NormalizeSegments(Tail(segments),
                                IF Len(acc) = 0 THEN acc ELSE SubSeq(acc, 1, Len(acc) - 1))
         ELSE NormalizeSegments(Tail(segments), Append(acc, seg))

\* The normal form of an absolute path
NormalizeAbsolute(p) == "/" \o join(NormalizeSegments(split(p, "/"), <<>>), "/")

\* path.resolve(from, to) for an absolute from
resolve(from, to) ==
    IF startsWith(to, "/") THEN NormalizeAbsolute(to)
    ELSE NormalizeAbsolute(from \o "/" \o to)

\* path.join(dir, name) for an absolute dir
pathJoin(dir, name) == NormalizeAbsolute(dir \o "/" \o name)

RECURSIVE StripTrailingSlashes(_)
StripTrailingSlashes(p) ==
    IF Len(p) > 1 /\ endsWith(p, "/") THEN StripTrailingSlashes(SubSeq(p, 1, Len(p) - 1))
    ELSE p

\* path.basename(p)
basename(p) ==
    LET q == StripTrailingSlashes(p)
        segs == split(q, "/")
    IN  IF q = "/" THEN "" ELSE segs[Len(segs)]

OUTPUTS_PATH == resolve(PROJECT_ROOT, OUTPUT_DIR)

RECURSIVE CommonPrefixLen(_, _)
CommonPrefixLen(a, b) ==
    IF Len(a) = 0 \/ Len(b) = 0 \/ a[1] # b[1] THEN 0
    ELSE 1 + CommonPrefixLen(Tail(a), Tail(b))

\* path.relative(from, to) for absolute normal paths
relative(from, to) ==
    LET a == NormalizeSegments(split(from, "/"), <<>>)
        b == NormalizeSegments(split(to, "/"), <<>>)
        n == CommonPrefixLen(a, b)
    IN  join([i \in 1..(Len(a) - n) |-> ".."] \o SubSeq(b, n + 1, Len(b)), "/")

toRelativePath(absolutePath) == relative(PROJECT_ROOT, absolutePath)

PathOk(path) == [ok |-> TRUE, path |-> path]

PathError(message) == [ok |-> FALSE, type |-> "Error", message |-> message]

\* A join that takes the name as a path of the project, unchecked
resolveInProject(filename) == PathOk(resolve(PROJECT_ROOT, filename))

\* safeJoinOutputs
safeJoinOutputs(filename) ==
    LET safeName == basename(filename)
        fullPath == pathJoin(OUTPUTS_PATH, safeName)
        resolvedPath == NormalizeAbsolute(fullPath)
    IN  IF ~startsWith(resolvedPath, OUTPUTS_PATH)
        THEN PathError("Invalid output path: path traversal detected")
        ELSE PathOk(resolvedPath)

\* validateOutputPath
validateOutputPath(filePath) ==
    LET resolvedPath == resolve(PROJECT_ROOT, filePath) IN
    IF ~startsWith(resolvedPath, OUTPUTS_PATH)
    THEN PathError("Invalid output path: must be within outputs directory")
    ELSE PathOk(resolvedPath)

-----------------------------------------------------------------------------
(* File helpers *)

Pad2(n) == IF n < 10 THEN "0" \o ToStr(n) ELSE ToStr(n)

\* new Date(t).toISOString().replace(/[:.]/g, '-').slice(0, 19), for a
\* clock that stays within the first day of the epoch
IsoTimestamp(t) ==
    LET secs == t \div 1000 IN
    "1970-01-01T" \o Pad2(secs \div 3600) \o "-" \o Pad2((secs \div 60) % 60)
                  \o "-" \o Pad2(secs % 60)

\* generateFilename, with the clock and the random hex it draws
generateFilename(toolName, extension, t, hash) ==
    toolName \o "_" \o IsoTimestamp(t) \o "_" \o hash \o "." \o extension

WordChars == "abcdefghijklmnopqrstuvwxyzABCDEFGHIJKLMNOPQRSTUVWXYZ0123456789_"

IsWordChar(c) == includes(WordChars, c)

\* base64Data.replace(/^data:image\/\w+;base64,/, '')
StripDataUrlPrefix(s) ==
    IF ~startsWith(s, "data:image/") THEN s
    ELSE LET rest == SubSeq(s, 12, Len(s))
             i == IndexFrom(rest, ";", 1)
         IN  IF /\ i > 1
                /\ \A j \in 1..(i - 1) : IsWordChar(CharAt(rest, j))
                /\ startsWith(SubSeq(rest, i, Len(rest)), ";base64,")
             THEN SubSeq(rest, i + 8, Len(rest))
             ELSE s

\* Buffer.from(text, 'base64'): the bytes that the text encodes
Base64Bytes(text) == [bytesOfBase64 |-> text]

\* The body of a downloaded image
DownloadedBytes(body) == [bytes |-> body]

\* What is left of a file whose write was cut short
Truncated(content) == [truncated |-> content]

\* A table that answers image/png for every extension
getMimeTypePng(extension) == "image/png"

\* getMimeType
getMimeType(extension) ==
    CASE extension = "png" -> "image/png"
      [] extension = "webp" -> "image/webp"
      [] extension \in {"jpg", "jpeg"} -> "image/jpeg"
      [] OTHER -> "application/octet-stream"

\* The file system is [files, dirs]; an operation on it gives the file
\* system after it, the lines logged, the requests sent, and either a value
\* or the exception thrown
Done(value, fs, log, requests) ==
    [ok |-> TRUE, value |-> value, fs |-> fs, log |-> log, requests |-> requests]

Fail(type, message, fs, log, requests) ==
    [ok |-> FALSE, type |-> type, message |-> message, fs |-> fs, log |-> log,
     requests |-> requests]

\* ensureOutputsDir
ensureOutputsDir(fs) ==
    IF OUTPUTS_PATH \in fs.dirs THEN Done(TRUE, fs, <<>>, <<>>)
    ELSE Done(TRUE, [fs EXCEPT !.dirs = @ \cup {OUTPUTS_PATH}],
              <<LogText("info", "Created outputs directory:", OUTPUTS_PATH)>>, <<>>)

PutFile(files_, path, content) ==
    [q \in (DOMAIN files_) \cup {path} |-> IF q = path THEN content ELSE files_[q]]

\* fs.writeFile(path, content): it fails on a directory; the disk may refuse
\* the file ("denied") or run out of space after creating it ("partial")
writeFile(fs, path, content, disk) ==
    IF path \in fs.dirs
    THEN Fail("Error", "EISDIR: illegal operation on a directory, open", fs, <<>>, <<>>)
    ELSE CASE disk = "denied" ->
                Fail("Error", "EACCES: permission denied, open", fs, <<>>, <<>>)
           [] disk = "partial" ->
                Fail("Error", "ENOSPC: no space left on device, write",
                     [fs EXCEPT !.files = PutFile(@, path, Truncated(content))], <<>>, <<>>)
           [] OTHER ->
                Done(TRUE, [fs EXCEPT !.files = PutFile(@, path, content)], <<>>, <<>>)

\* The end of a write: the failure w of fs.writeFile leaves the helper, a
\* finished write is logged and gives the path
Stored(w, path, log) ==
    IF ~w.ok THEN Fail(w.type, w.message, w.fs, log, <<>>)
    ELSE Done(path, w.fs, log \o <<LogText("info", "Wrote image to:", path)>>, <<>>)

\* const filePath = safeJoinOutputs(filename); await fs.writeFile(filePath,
\* buffer), in the file system e.fs that ensureOutputsDir left
WriteJoined(filePath, buffer, e, disk) ==
    IF ~filePath.ok THEN Fail(filePath.type, filePath.message, e.fs, e.log, <<>>)
    ELSE Stored(writeFile(e.fs, filePath.path, buffer, disk), filePath.path, e.log)

\* writeImageBuffer
writeImageBuffer(buffer, filename, fs, disk) ==
    WriteJoined(safeJoinOutputs(filename), buffer, ensureOutputsDir(fs), disk)

\* writeBase64Image; the data is whatever value the parser returned
writeBase64Image(base64Data, filename, fs, disk) ==
    IF ~IsString(base64Data)
    THEN Fail("TypeError", "base64Data.replace is not a function",
              ensureOutputsDir(fs).fs, ensureOutputsDir(fs).log, <<>>)
    ELSE WriteJoined(safeJoinOutputs(filename),
                     Base64Bytes(StripDataUrlPrefix(base64Data.s)),
                     ensureOutputsDir(fs), disk)

DownloadRequest(url) == [url |-> url, method |-> "GET"]

\* downloadImage; download is what the remote end answers to the fetch.  The
\* outcome of writeImageBuffer is the outcome of the download, after the
\* lines of ensureOutputsDir and with the request sent
downloadImage(url, filename, fs, download, disk) ==
    CASE download.kind = "neterr" ->
           Fail("TypeError", "fetch failed", ensureOutputsDir(fs).fs,
                ensureOutputsDir(fs).log, <<DownloadRequest(url.s)>>)
      [] download.kind = "http" ->
           Fail("Error", "Failed to download image: " \o download.statusText,
                ensureOutputsDir(fs).fs, ensureOutputsDir(fs).log,
                <<DownloadRequest(url.s)>>)
      [] OTHER ->
           [writeImageBuffer(DownloadedBytes(download.body), filename,
                             ensureOutputsDir(fs).fs, disk)
              EXCEPT !.log = ensureOutputsDir(fs).log \o @,
                     !.requests = <<DownloadRequest(url.s)>>]

-----------------------------------------------------------------------------
(* Argument validation (zod schemas) *)

RECURSIVE Repeat(_, _)
Repeat(c, n) ==
    IF n = 0 THEN ""
    ELSE LET half == Repeat(c, n \div 2) IN
         IF n % 2 = 0 THEN half \o half ELSE half \o half \o c

NoIssue == ""

\* z.string().min(min).max(max); max < 0 is no upper limit
zString(v, min, max) ==
    IF ~IsString(v) THEN "invalid_type"
    ELSE IF Len(v.s) < min THEN "too_small"
    ELSE IF max >= 0 /\ Len(v.s) > max THEN "too_big"
    ELSE NoIssue

\* schema.optional()
zOptional(v, issue) == IF v.t = "undef" THEN NoIssue ELSE issue

\* An enum check that accepts every string
zEnumAnyString(v, allowed) ==
    IF ~IsString(v) THEN "invalid_type" ELSE NoIssue

\* z.enum(allowed)
zEnum(v, allowed) ==
    IF ~IsString(v) THEN "invalid_type"
    ELSE IF v.s \notin allowed THEN "invalid_enum_value"
    ELSE NoIssue

\* The value of a field with .default(d), and of an optional string
OrDefault(v, d) == IF v.t = "undef" THEN d ELSE v.s

styleSchema == {"illustration", "3d", "flat", "photoreal", "anime", "pixel"}

sizeSchema == {"1024x1024", "1024x1536", "1536x1024"}

iconSizeSchema == {"256x256", "512x512"}

backgroundSchema == {"transparent", "solid"}

outputFormatSchema == {"png", "webp"}

themeSchema == {"minimal", "playful", "corporate"}

\* ZodError.message: the issues found, each with its path
RECURSIVE IssueText(_)
IssueText(issues) ==
    IF Len(issues) = 0 THEN ""
    ELSE (IF issues[1][2] = NoIssue THEN ""
          ELSE " {code: " \o issues[1][2] \o ", path: " \o issues[1][1] \o "}")
         \o IssueText(Tail(issues))

Valid(input) == [ok |-> TRUE, input |-> input]

ZodError(issues) ==
    [ok |-> FALSE, type |-> "ZodError", message |-> "[" \o IssueText(issues) \o " ]"]

\* schema.parse(args) for a z.object: every field is checked
ParseObject(args, issues, input) ==
    IF args.t # "obj" THEN ZodError(<<<<"", "invalid_type">>>>)
    ELSE IF \E i \in 1..Len(issues) : issues[i][2] # NoIssue THEN ZodError(issues)
    ELSE Valid(input)

generateImageInputSchema(args) ==
    ParseObject(args,
        << <<"prompt", zString(Get(args, "prompt"), 1, 2000)>>,
           <<"style", zOptional(Get(args, "style"), zEnum(Get(args, "style"), styleSchema))>>,
           <<"size", zOptional(Get(args, "size"), zEnum(Get(args, "size"), sizeSchema))>>,
           <<"background", zOptional(Get(args, "background"),
                                     zEnum(Get(args, "background"), backgroundSchema))>>,
           <<"output_format", zOptional(Get(args, "output_format"),
                                        zEnum(Get(args, "output_format"), outputFormatSchema))>>,
           <<"output_path", zOptional(Get(args, "output_path"),
                                      zString(Get(args, "output_path"), 0, -1))>> >>,
        [prompt |-> Get(args, "prompt").s,
         style |-> OrDefault(Get(args, "style"), "illustration"),
         size |-> OrDefault(Get(args, "size"), "1024x1024"),
         background |-> OrDefault(Get(args, "background"), "solid"),
         output_format |-> OrDefault(Get(args, "output_format"), "png"),
         output_path |-> OrDefault(Get(args, "output_path"), "")])

generateIconInputSchema(args) ==
    ParseObject(args,
        << <<"concept", zString(Get(args, "concept"), 1, 2000)>>,
           <<"theme", zOptional(Get(args, "theme"), zEnum(Get(args, "theme"), themeSchema))>>,
           <<"size", zOptional(Get(args, "size"), zEnum(Get(args, "size"), iconSizeSchema))>>,
           <<"output_format", zOptional(Get(args, "output_format"),
                                        zEnum(Get(args, "output_format"), outputFormatSchema))>> >>,
        [concept |-> Get(args, "concept").s,
         theme |-> OrDefault(Get(args, "theme"), "minimal"),
         size |-> OrDefault(Get(args, "size"), "512x512"),
         output_format |-> OrDefault(Get(args, "output_format"), "png")])

generateHeroInputSchema(args) ==
    ParseObject(args,
        << <<"product_name", zString(Get(args, "product_name"), 1, 200)>>,
           <<"tagline", zString(Get(args, "tagline"), 1, 500)>>,
           <<"vibe", zOptional(Get(args, "vibe"), zString(Get(args, "vibe"), 0, 200))>>,
           <<"size", zOptional(Get(args, "size"), zEnum(Get(args, "size"), sizeSchema))>>,
           <<"output_format", zOptional(Get(args, "output_format"),
                                        zEnum(Get(args, "output_format"), outputFormatSchema))>> >>,
        [product_name |-> Get(args, "product_name").s,
         tagline |-> Get(args, "tagline").s,
         vibe |-> OrDefault(Get(args, "vibe"), ""),
         size |-> OrDefault(Get(args, "size"), "1536x1024"),
         output_format |-> OrDefault(Get(args, "output_format"), "png")])

beautifyScreenshotInputSchema(args) ==
    ParseObject(args,
        << <<"input_image_path", zString(Get(args, "input_image_path"), 1, -1)>>,
           <<"goal", zString(Get(args, "goal"), 1, 1000)>>,
           <<"output_format", zOptional(Get(args, "output_format"),
                                        zEnum(Get(args, "output_format"), outputFormatSchema))>> >>,
        [input_image_path |-> Get(args, "input_image_path").s,
         goal |-> Get(args, "goal").s,
         output_format |-> OrDefault(Get(args, "output_format"), "png")])

-----------------------------------------------------------------------------
(* Rate limiter *)

RATE_LIMIT_WINDOW == 60000

DefaultRateLimit == 20

\* rateLimitMap.get(toolName) || []
Timestamps(map, toolName) == IF toolName \in DOMAIN map THEN map[toolName] ELSE <<>>

RateLimitMessage(max) ==
    "Rate limit exceeded: max " \o ToStr(max) \o " requests per minute"

\* A limiter that rejects only when more than max timestamps are in the window
checkRateLimitAbove(map, max, toolName, t) ==
    LET validTimestamps ==
            SelectSeq(Timestamps(map, toolName), LAMBDA x : t - x < RATE_LIMIT_WINDOW)
    IN  IF Len(validTimestamps) > max
        THEN [ok |-> FALSE, type |-> "Error", message |-> RateLimitMessage(max), map |-> map]
        ELSE [ok |-> TRUE,
              map |-> [k \in (DOMAIN map) \cup {toolName} |->
                          IF k = toolName THEN Append(validTimestamps, t) ELSE map[k]]]

\* A limiter that records the timestamp of the call it rejects
checkRateLimitRecording(map, max, toolName, t) ==
    LET validTimestamps ==
            SelectSeq(Timestamps(map, toolName), LAMBDA x : t - x < RATE_LIMIT_WINDOW)
    IN  [ok |-> Len(validTimestamps) < max, type |-> "Error",
         message |-> RateLimitMessage(max),
         map |-> [k \in (DOMAIN map) \cup {toolName} |->
                     IF k = toolName THEN Append(validTimestamps, t) ELSE map[k]]]

\* A limiter that writes back only the new timestamp, as a call would that
\* recorded into a list another call had replaced in the meantime
checkRateLimitLosing(map, max, toolName, t) ==
    LET validTimestamps ==
            SelectSeq(Timestamps(map, toolName), LAMBDA x : t - x < RATE_LIMIT_WINDOW)
    IN  IF Len(validTimestamps) >= max
        THEN [ok |-> FALSE, type |-> "Error", message |-> RateLimitMessage(max), map |-> map]
        ELSE [ok |-> TRUE,
              map |-> [k \in (DOMAIN map) \cup {toolName} |->
                          IF k = toolName THEN <<t>> ELSE map[k]]]

\* A limiter that counts every timestamp it has recorded, old ones too
checkRateLimitUnpruned(map, max, toolName, t) ==
    LET validTimestamps == Timestamps(map, toolName)
    IN  IF Len(validTimestamps) >= max
        THEN [ok |-> FALSE, type |-> "Error", message |-> RateLimitMessage(max), map |-> map]
        ELSE [ok |-> TRUE,
              map |-> [k \in (DOMAIN map) \cup {toolName} |->
                          IF k = toolName THEN Append(validTimestamps, t) ELSE map[k]]]

\* A limiter that keeps one window for all tools
checkRateLimitShared(map, max, toolName, t) ==
    LET validTimestamps ==
            SelectSeq(Timestamps(map, "*"), LAMBDA x : t - x < RATE_LIMIT_WINDOW)
    IN  IF Len(validTimestamps) >= max
        THEN [ok |-> FALSE, type |-> "Error", message |-> RateLimitMessage(max), map |-> map]
        ELSE [ok |-> TRUE,
              map |-> [k \in (DOMAIN map) \cup {"*"} |-> Append(validTimestamps, t)]]

\* A limiter that counts only the calls to tools the server has
checkRateLimitKnown(map, max, toolName, t) ==
    LET validTimestamps ==
            SelectSeq(Timestamps(map, toolName), LAMBDA x : t - x < RATE_LIMIT_WINDOW)
    IN  IF Len(validTimestamps) >= max
        THEN [ok |-> FALSE, type |-> "Error", message |-> RateLimitMessage(max), map |-> map]
        ELSE IF toolName \notin {"generate_image", "generate_icon", "generate_hero",
                                 "beautify_screenshot"}
        THEN [ok |-> TRUE, map |-> map]
        ELSE [ok |-> TRUE,
              map |-> [k \in (DOMAIN map) \cup {toolName} |->
                          IF k = toolName THEN Append(validTimestamps, t) ELSE map[k]]]

\* checkRateLimit: the map after the check, or the error thrown
checkRateLimit(map, max, toolName, t) ==
    LET validTimestamps ==
            SelectSeq(Timestamps(map, toolName), LAMBDA x : t - x < RATE_LIMIT_WINDOW)
    IN  IF Len(validTimestamps) >= max
        THEN [ok |-> FALSE, type |-> "Error", message |-> RateLimitMessage(max), map |-> map]
        ELSE [ok |-> TRUE,
              map |-> [k \in (DOMAIN map) \cup {toolName} |->
                          IF k = toolName THEN Append(validTimestamps, t) ELSE map[k]]]

-----------------------------------------------------------------------------
(* Tool handlers *)

\* s.slice(0, 50) + '...'
Preview(text) == SubSeq(text, 1, IF Len(text) < 50 THEN Len(text) ELSE 50) \o "..."

SuccessPayload(filePath, format, width, height) ==
    [ok |-> TRUE, file_path |-> toRelativePath(filePath),
     mime_type |-> getMimeType(format), width |-> width, height |-> height]

\* if (result.format === 'base64') writeBase64Image(...) else downloadImage(...)
SaveImage(result, filename, fs, env) ==
    IF result.format = "base64"
    THEN writeBase64Image(result.data, filename, fs, env.disk)
    ELSE downloadImage(result.data, filename, fs, env.download, env.disk)

\* The payload of a generating handler once the image w is saved, or the
\* failure of the save; sized says which width and height the payload reports
Payloaded(g, w, options, format, log, sized) ==
    IF ~w.ok
    THEN Fail(w.type, w.message, w.fs, log \o g.log \o w.log, g.requests \o w.requests)
    ELSE Done(SuccessPayload(w.value, format,
                             IF sized THEN parseSize(options.size).width ELSE g.width,
                             IF sized THEN parseSize(options.size).height ELSE g.height),
              w.fs, log \o g.log \o w.log, g.requests \o w.requests)

\* A handler that has reserved the file name with an empty file before it
\* calls the provider
GeneratedReserving(g, options, filename, format, fs, env, log, sized) ==
    IF ~g.ok
    THEN Fail(g.type, g.message,
              [fs EXCEPT !.files = PutFile(@, pathJoin(OUTPUTS_PATH, basename(filename)),
                                           Base64Bytes(""))],
              log \o g.log, g.requests)
    ELSE Payloaded(g, SaveImage(g, filename, fs, env), options, format, log, sized)

\* What a generating handler does with the provider's result g: a throw of
\* the provider leaves the handler, an image is saved
Generated(g, options, filename, format, fs, env, log, sized) ==
    IF ~g.ok THEN Fail(g.type, g.message, fs, log \o g.log, g.requests)
    ELSE Payloaded(g, SaveImage(g, filename, fs, env), options, format, log, sized)

\* The tail shared by the three generating handlers: call the provider,
\* save the image, form the payload
GenerateAndSave(key, options, filename, format, fs, env, log, sized) ==
    Generated(generateImage(key, options, env.remote),
              options, filename, format, fs, env, log, sized)

handleGenerateImage(key, args, fs, t, env) ==
    LET v == generateImageInputSchema(args) IN
    IF ~v.ok THEN Fail(v.type, v.message, fs, <<>>, <<>>)
    ELSE
    LET input == v.input
        log == <<LogText("info", "Generating image:", Preview(input.prompt))>>
        checked == IF input.output_path # "" THEN validateOutputPath(input.output_path)
                   ELSE PathOk("")
        filename == IF input.output_path # "" THEN input.output_path
                    ELSE generateFilename("generate_image", input.output_format, t, env.hash)
    IN  IF ~checked.ok THEN Fail(checked.type, checked.message, fs, log, <<>>)
        ELSE GenerateAndSave(key,
                 [prompt |-> input.prompt, style |-> input.style, size |-> input.size,
                  background |-> input.background, format |-> input.output_format],
                 filename, input.output_format, fs, env, log, FALSE)

themeDescriptions ==
    [minimal |-> "minimalist, clean lines, simple shapes, modern",
     playful |-> "fun, colorful, rounded shapes, friendly",
     corporate |-> "professional, sleek, business-like, polished"]

IconPrompt(input) ==
    "A " \o themeDescriptions[input.theme] \o " icon representing: " \o input.concept
         \o ". Icon design, centered, clean background."

handleGenerateIcon(key, args, fs, t, env) ==
    LET v == generateIconInputSchema(args) IN
    IF ~v.ok THEN Fail(v.type, v.message, fs, <<>>, <<>>)
    ELSE
    LET input == v.input
        log == <<LogText("info", "Generating icon:", Preview(input.concept))>>
        filename == generateFilename("generate_icon", input.output_format, t, env.hash)
    IN  GenerateAndSave(key,
            [prompt |-> IconPrompt(input), style |-> "flat", size |-> input.size,
             background |-> "transparent", format |-> input.output_format],
            filename, input.output_format, fs, env, log, TRUE)

HeroPrompt(input) ==
    LET vibeText == IF input.vibe # "" THEN ", " \o input.vibe \o " vibe" ELSE "" IN
    "Hero banner image for " \o "\"" \o input.product_name \o "\"" \o ". " \o input.tagline
        \o vibeText \o ". Professional, eye-catching, suitable for website header."

HeroNotConfiguredMessage ==
    "Image provider not configured. Configure GEMINI_API_KEY to generate images."

handleGenerateHero(key, args, fs, t, env) ==
    LET v == generateHeroInputSchema(args) IN
    IF ~v.ok THEN Fail(v.type, v.message, fs, <<>>, <<>>)
    ELSE
    LET input == v.input
        log == <<LogText("info", "Generating hero image:", input.product_name)>>
        prompt == HeroPrompt(input)
        filename == generateFilename("generate_hero", input.output_format, t, env.hash)
    IN  IF ~isConfigured(key)
        THEN Done([ok |-> FALSE, suggested_prompt |-> prompt,
                   message |-> HeroNotConfiguredMessage],
                  fs,
                  log \o <<LogOnly("warn", "Provider not configured, returning suggested prompt only")>>,
                  <<>>)
        ELSE GenerateAndSave(key,
                 [prompt |-> prompt, style |-> "photoreal", size |-> input.size,
                  background |-> "solid", format |-> input.output_format],
                 filename, input.output_format, fs, env, log, FALSE)

suggestions ==
    <<"Increase whitespace and padding for a cleaner look",
      "Use a consistent color palette throughout the UI",
      "Improve typography hierarchy with varied font sizes",
      "Add subtle shadows or borders to define sections",
      "Ensure proper alignment of all elements",
      "Consider using rounded corners for a modern feel",
      "Optimize button sizes and spacing for better UX">>

handleBeautifyScreenshot(args, fs) ==
    LET v == beautifyScreenshotInputSchema(args) IN
    IF ~v.ok THEN Fail(v.type, v.message, fs, <<>>, <<>>)
    ELSE
    LET input == v.input
        log == <<LogText("info", "Beautify screenshot (stub):", input.input_image_path)>>
    IN  IF ~validateOutputPath(input.input_image_path).ok
        THEN Fail("Error", "Input image must be in outputs/ directory", fs, log, <<>>)
        ELSE Done([ok |-> TRUE,
                   message |-> "Beautify screenshot is currently a stub implementation",
                   suggested_steps |-> suggestions,
                   note |-> "To implement image editing, integrate an image manipulation API or library"],
                  fs, log, <<>>)

-----------------------------------------------------------------------------
(* Tool dispatcher *)

\* The switch of the call-tool handler
Dispatch(key, name, args, fs, t, env) ==
    CASE name = "generate_image" -> handleGenerateImage(key, args, fs, t, env)
      [] name = "generate_icon" -> handleGenerateIcon(key, args, fs, t, env)
      [] name = "generate_hero" -> handleGenerateHero(key, args, fs, t, env)
      [] name = "beautify_screenshot" -> handleBeautifyScreenshot(args, fs)
      [] OTHER -> Fail("Error", "Unknown tool: " \o name, fs, <<>>, <<>>)

\* { content: [{ type: 'text', text: JSON.stringify(payload) }] }
TextContent(payload) == [content |-> <<[type |-> "text", json |-> payload]>>]

\* The classes for which error instanceof Error holds
ErrorClasses == {"Error", "TypeError", "SyntaxError", "ZodError"}

\* A handler without the catch block: the exception leaves the handler
Uncaught(name, failure, map, levelOfLogger) ==
    [response |-> [content |-> <<>>],
     escaped |-> TRUE,
     thrown |-> [type |-> failure.type, message |-> failure.message],
     map |-> map, fs |-> failure.fs,
     log |-> Logged(levelOfLogger, failure.log),
     requests |-> failure.requests]

\* The catch block of the call-tool handler: log the failure and answer
\* with the message of the Error
Caught(name, failure, map, levelOfLogger) ==
    [response |-> TextContent([ok |-> FALSE,
                               error |-> IF failure.type \in ErrorClasses
                                         THEN failure.message ELSE "Unknown error"]),
     escaped |-> FALSE,
     thrown |-> [type |-> failure.type, message |-> failure.message],
     map |-> map, fs |-> failure.fs,
     log |-> Logged(levelOfLogger,
                    failure.log \o <<LogText("error", "Tool " \o name \o " failed:", failure.message)>>),
     requests |-> failure.requests]

NothingThrown == [type |-> "", message |-> ""]

\* The end of the try block: the handler's payload r becomes the response,
\* a throw of the handler goes to the catch block
Responded(r, name, map, levelOfLogger) ==
    IF ~r.ok THEN Caught(name, r, map, levelOfLogger)
    ELSE [response |-> TextContent(r.value), escaped |-> FALSE,
          thrown |-> NothingThrown, map |-> map, fs |-> r.fs,
          log |-> Logged(levelOfLogger, r.log), requests |-> r.requests]

\* The call-tool request handler, from the request to the response, with
\* everything it changes: a throw of the rate-limit check or of the handler
\* goes to the catch block
CallToolHandler(key, levelOfLogger, max, map, fs, t, name, args, env) ==
    LET limit == checkRateLimit(map, max, name, t) IN
    Responded(IF limit.ok THEN Dispatch(key, name, args, fs, t, env)
              ELSE Fail(limit.type, limit.message, fs, <<>>, <<>>),
              name, limit.map, levelOfLogger)

-----------------------------------------------------------------------------
(* Response bodies the remote end may send *)

Absent == [t |-> "absent"]

B64A == "iVBORw0KGgo="

B64B == "UklGRg=="

TextPart == JObj([text |-> JStr("Here is your image")])

DataPart(d) == JObj([inline_data |-> JObj([data |-> d])])

Candidate(parts) == JObj([content |-> JObj([parts |-> parts])])

\* Values of the candidates field: well formed, empty and malformed
CandidateOptions ==
    { Absent,
      JArr(<<>>),
      JArr(<<Candidate(JArr(<<DataPart(JStr(B64A))>>))>>),
      JArr(<<Candidate(JArr(<<TextPart, DataPart(JStr(B64B))>>)),
             Candidate(JArr(<<DataPart(JStr(B64A))>>))>>),
      JArr(<<Candidate(JArr(<<TextPart>>)),
             Candidate(JArr(<<DataPart(JStr(B64A)), DataPart(JStr(B64B))>>))>>),
      JArr(<<Candidate(JArr(<<DataPart(JStr("")), DataPart(JStr(B64A))>>))>>),
      JArr(<<Candidate(JArr(<<DataPart(JStr(B64A))>>)), JNull>>),
      JArr(<<JObj(<<>>)>>),
      JArr(<<JNull>>),
      JArr(<<JNum(5)>>),
      JArr(<<Candidate(JNum(5))>>),
      JArr(<<Candidate(JStr("ab"))>>),
      JArr(<<Candidate(JArr(<<JNull>>))>>),
      JStr("none") }

ImageOptions == {Absent, JStr(B64A), JStr("https://cdn.example/i.png"), JStr(""), JNum(5)}

DataOptions == {Absent, JStr(B64B), JStr("http://cdn.example/d.png")}

UrlOptions == {Absent, JStr("https://cdn.example/u.png"), JStr("ftp://example/u.png")}

ResultOptions == {Absent, JObj([image |-> JStr(B64A)])}

ImagesOptions ==
    { Absent,
      JArr(<<>>),
      JArr(<<JStr(B64B)>>),
      JArr(<<JStr("https://cdn.example/a.png"), JStr(B64A)>>),
      JArr(<<JObj([url |-> JStr("https://cdn.example/o.png")])>>),
      JArr(<<JNull>>) }

\* The JSON object holding the fields of f that are present
ObjectOf(f) == JObj([k \in {x \in DOMAIN f : f[x] # Absent} |-> f[k]])

ObjectBodies ==
    { ObjectOf([candidates |-> c, image |-> i, data |-> d, url |-> u,
                result |-> r, images |-> m]) :
        c \in CandidateOptions, i \in ImageOptions, d \in DataOptions,
        u \in UrlOptions, r \in ResultOptions, m \in ImagesOptions }

ScalarBodies == {JNull, JNum(5), JStr("OK"), JBool(TRUE), JArr(<<>>)}

Bodies == ObjectBodies \cup ScalarBodies

\* Requested sizes: the values of sizeSchema and iconSizeSchema
SizePairs == {<<1024, 1024>>, <<1024, 1536>>, <<1536, 1024>>, <<256, 256>>, <<512, 512>>}

SizeString(w, h) == ToStr(w) \o "x" \o ToStr(h)

-----------------------------------------------------------------------------
(* Inputs of the server: tool calls and what the outside world answers *)

MaxCalls == 1

KeyA == "AIzaSyA-first-key"

KeyB == "AIzaSyB-other-key"

NoCall == [name |-> "", done |-> FALSE]

ToolNames == {"generate_image", "generate_icon", "generate_hero", "beautify_screenshot"}

UnknownNames == {"resize_image", "delete_image"}

Str(s) == JStr(s)

OutputPaths ==
    {"outputs/my_image.png", "my_image.png", "../../etc/passwd", "outputs_evil/x.png",
     "outputs/x/..", "outputs/.", "outputs", "/etc/passwd",
     "/srv/banana-mcp/outputs/sub/abs.webp"}

GenerateImageArgs ==
    { JObj([prompt |-> Str("A cute cartoon banana wearing sunglasses")]),
      JObj([prompt |-> Str(Repeat("b", 2000)), style |-> Str("3d"), size |-> Str("1024x1536"),
            background |-> Str("transparent"), output_format |-> Str("webp")]),
      JUndef,
      JObj(<<>>),
      JObj([prompt |-> Str("")]),
      JObj([prompt |-> Str(Repeat("b", 2001))]),
      JObj([prompt |-> JNum(7)]),
      JObj([prompt |-> Str("a banana"), style |-> Str("cubist")]),
      JObj([prompt |-> Str("a banana"), size |-> Str("2048x2048")]),
      JObj([prompt |-> Str("a banana"), output_path |-> JNum(7)]) }
    \cup { JObj([prompt |-> Str("a banana"), output_path |-> Str(q)]) : q \in OutputPaths }

GenerateIconArgs ==
    { JObj([concept |-> Str("a rocket"), theme |-> Str("minimal"), size |-> Str("512x512")]),
      JObj([concept |-> Str("a rocket"), theme |-> Str("playful"), size |-> Str("256x256"),
            output_format |-> Str("webp")]),
      JObj([theme |-> Str("minimal")]),
      JObj([concept |-> Str("a rocket"), size |-> Str("1024x1024")]),
      JObj([concept |-> Str("a rocket"), output_format |-> Str("gif")]) }

GenerateHeroArgs ==
    { JObj([product_name |-> Str("BananaMCP"),
            tagline |-> Str("The sweetest MCP server for image generation"),
            vibe |-> Str("modern")]),
      JObj([product_name |-> Str("BananaMCP"), tagline |-> Str("Sweet"),
            size |-> Str("1024x1024"), output_format |-> Str("webp")]),
      JObj([product_name |-> Str("BananaMCP")]),
      JObj([product_name |-> Str(Repeat("n", 201)), tagline |-> Str("Sweet")]),
      JObj([product_name |-> Str("BananaMCP"), tagline |-> Str("Sweet"),
            vibe |-> Str(Repeat("v", 201))]) }

BeautifyArgs ==
    { JObj([input_image_path |-> Str(q), goal |-> Str("Make the UI more modern")]) :
        q \in {"outputs/test.png", "outputs_evil/x.png", "../secret.png", "outputs"} }
    \cup { JObj([input_image_path |-> Str("outputs/test.png")]),
           JObj([input_image_path |-> Str(""), goal |-> Str("cleaner")]) }

ArgsOf(name) ==
    CASE name = "generate_image" -> GenerateImageArgs
      [] name = "generate_icon" -> GenerateIconArgs
      [] name = "generate_hero" -> GenerateHeroArgs
      [] name = "beautify_screenshot" -> BeautifyArgs
      [] OTHER -> {JUndef}

GoodBody == JObj([candidates |-> JArr(<<Candidate(JArr(<<DataPart(JStr(B64A))>>))>>)])

ServerBodies ==
    { GoodBody,
      JObj([image |-> JStr("https://cdn.example/i.png")]),
      JObj([data |-> JStr("data:image/png;base64," \o B64B)]),
      JObj([candidates |-> JArr(<<Candidate(JArr(<<DataPart(JNum(5))>>))>>)]),
      JObj(<<>>),
      JNull }

Remotes ==
    {NetError, BadJson, HttpError(500, "Internal Server Error", "upstream exploded")}
    \cup {HttpOk(b) : b \in ServerBodies}

Downloads ==
    { [kind |-> "ok", body |-> "RIFF-image-bytes"],
      [kind |-> "http", statusText |-> "Not Found"],
      [kind |-> "neterr"] }

Disks == {"ok", "denied", "partial"}

\* The world in which every step of a call succeeds
DefaultEnv ==
    [remote |-> HttpOk(GoodBody), download |-> [kind |-> "ok", body |-> "RIFF-image-bytes"],
     disk |-> "ok", hash |-> "a1b2c3d4"]

-----------------------------------------------------------------------------
(* The server *)

FileSystem == [files |-> files, dirs |-> dirs]

Handled(name, args, env) ==
    CallToolHandler(apiKey, logLevel, RATE_LIMIT_MAX, rateLimitMap, FileSystem, now,
                    name, args, env)

\* The paths whose file was created or changed
Written(before, after) ==
    {q \in DOMAIN after : q \notin DOMAIN before \/ before[q] # after[q]}

\* The response reports a saved file
Saved(out) ==
    /\ Len(out.response.content) > 0
    /\ "file_path" \in DOMAIN out.response.content[1].json

\* The call passed the rate-limit check
Admitted(out) == out.thrown.message # RateLimitMessage(RATE_LIMIT_MAX)

\* The state after the call name(args) answered out
Answered(name, args, env, out) ==
    /\ rateLimitMap' = out.map
    /\ files' = out.fs.files
    /\ dirs' = out.fs.dirs
    /\ calls' = calls + 1
    /\ history' = Append(history, [name |-> name, at |-> now, accepted |-> Admitted(out)])
    /\ last' = [name |-> name, args |-> args, env |-> env, at |-> now,
                done |-> TRUE, admitted |-> Admitted(out),
                response |-> out.response,
                escaped |-> out.escaped, thrown |-> out.thrown,
                log |-> out.log, requests |-> out.requests,
                wrote |-> Written(files, out.fs.files)]
    /\ UNCHANGED <<apiKey, logLevel, RATE_LIMIT_MAX, now, pIn, pOut>>

\* One tool call, from the request to the response.  The answers of the
\* outside world are drawn in the order the call consumes them: the
\* provider's answer when the call sends the provider request, the download
\* when it fetches a URL, the disk when it reaches the write.  An answer the
\* call never looks at stays at its default.
CallTool(name, args, world) ==
    \E remote \in (IF Len(Handled(name, args, DefaultEnv).requests) > 0
                   THEN world.remotes ELSE {DefaultEnv.remote}) :
      \E download \in (IF Len(Handled(name, args,
                                       [DefaultEnv EXCEPT !.remote = remote]).requests) > 1
                       THEN world.downloads ELSE {DefaultEnv.download}) :
        \E disk \in (IF Saved(Handled(name, args,
                                      [DefaultEnv EXCEPT !.remote = remote,
                                                         !.download = download]))
                     THEN world.disks ELSE {DefaultEnv.disk}) :
          Answered(name, args,
                   [DefaultEnv EXCEPT !.remote = remote, !.download = download, !.disk = disk],
                   Handled(name, args, [DefaultEnv EXCEPT !.remote = remote,
                                                          !.download = download,
                                                          !.disk = disk]))

\* Time passes between calls
Tick(d, limit) ==
    /\ now + d <= limit
    /\ now' = now + d
    /\ UNCHANGED <<apiKey, logLevel, RATE_LIMIT_MAX, rateLimitMap, files, dirs,
                   calls, history, last, pIn, pOut>>

IdleHarness == [body |-> JNull, w |-> 0, h |-> 0]

\* The server after start, before any call
Started ==
    /\ now = 0
    /\ rateLimitMap = <<>>
    /\ files = <<>>
    /\ dirs = {}
    /\ calls = 0
    /\ history = <<>>
    /\ last = NoCall
    /\ pIn = IdleHarness
    /\ pOut = [op |-> "none"]

(* Single calls: every kind of argument, and for the first arguments of a *)
(* generating tool every answer of the world                               *)

World == [remotes |-> Remotes, downloads |-> Downloads, disks |-> Disks]

\* The provider answers with an image, an error or a URL; the download and
\* the disk work or fail
SmallWorld ==
    [remotes |-> {HttpOk(GoodBody), HttpError(500, "Internal Server Error", "upstream exploded"),
                  HttpOk(JObj([image |-> JStr("https://cdn.example/i.png")]))},
     downloads |-> {[kind |-> "ok", body |-> "RIFF-image-bytes"],
                    [kind |-> "http", statusText |-> "Not Found"]},
     disks |-> {"ok", "partial"}]

CalmWorld ==
    [remotes |-> {DefaultEnv.remote}, downloads |-> {DefaultEnv.download},
     disks |-> {DefaultEnv.disk}]

ImageCall == JObj([prompt |-> Str("A cute cartoon banana wearing sunglasses")])

IconCall ==
    JObj([concept |-> Str("a rocket"), theme |-> Str("minimal"), size |-> Str("512x512")])

HeroCall ==
    JObj([product_name |-> Str("BananaMCP"),
          tagline |-> Str("The sweetest MCP server for image generation"),
          vibe |-> Str("modern")])

WorldOf(args) ==
    IF args = ImageCall THEN World
    ELSE IF args \in {IconCall, HeroCall} THEN SmallWorld
    ELSE CalmWorld

Init ==
    /\ apiKey \in {"", KeyA}
    /\ logLevel \in {"debug", "info"}
    /\ RATE_LIMIT_MAX = DefaultRateLimit
    /\ Started

Call ==
    /\ calls < MaxCalls
    /\ \E name \in ToolNames \cup UnknownNames : \E args \in ArgsOf(name) :
          CallTool(name, args, WorldOf(args))

Next == Call

Spec == Init /\ [][Next]_vars

(* Sequences of calls, in which a tool may run out of quota *)

MaxSeq == 2

SeqPaths ==
    {"outputs/my_image.png", "my_image.png", "../../etc/passwd", "outputs_evil/x.png",
     "outputs/x/..", "outputs/.", "/etc/passwd"}

SeqCalls ==
    { <<"resize_image", JUndef>>,
      <<"generate_image", ImageCall>>,
      <<"generate_image", JObj([prompt |-> Str("")])>>,
      <<"generate_icon", IconCall>>,
      <<"generate_hero", HeroCall>>,
      <<"beautify_screenshot",
        JObj([input_image_path |-> Str("outputs/test.png"),
              goal |-> Str("Make the UI more modern")])>> }
    \cup { <<"generate_image", JObj([prompt |-> Str("a banana"), output_path |-> Str(q)])>> :
             q \in SeqPaths }

SeqWorldOf(args) == IF args = ImageCall THEN SmallWorld ELSE CalmWorld

InitSeq ==
    /\ apiKey = KeyA
    /\ logLevel = "info"
    /\ RATE_LIMIT_MAX \in {1, DefaultRateLimit}
    /\ Started

CallSeq ==
    /\ calls < MaxSeq
    /\ \E c \in SeqCalls : CallTool(c[1], c[2], SeqWorldOf(c[2]))

NextSeq == CallSeq

SpecSeq == InitSeq /\ [][NextSeq]_vars

(* The rate limiter under a clock that advances between calls *)

MaxCapacity == 2

MaxRateCalls == 3

MaxNow == 80000

TickSteps == {19999, 20000}

RateCalls ==
    { <<"resize_image", JUndef>>,
      <<"beautify_screenshot",
        JObj([input_image_path |-> Str("outputs/test.png"),
              goal |-> Str("Make the UI more modern")])>> }

InitRate ==
    /\ apiKey = KeyA
    /\ logLevel = "info"
    /\ RATE_LIMIT_MAX \in 1..MaxCapacity
    /\ Started

CallRate ==
    /\ calls < MaxRateCalls
    /\ \E c \in RateCalls : CallTool(c[1], c[2], CalmWorld)

TickRate == \E d \in TickSteps : Tick(d, MaxNow)

NextRate == CallRate \/ TickRate

SpecRate == InitRate /\ [][NextRate]_vars

(* Calls the transport delivers concurrently.  A handler runs without      *)
(* interruption up to its first await, which is the fetch of the provider  *)
(* request; the handlers of other calls run while it waits                 *)

MaxServed == 3

ConcurrentCalls ==
    { <<"generate_image", ImageCall>>,
      <<"generate_icon", IconCall>>,
      <<"generate_image", JObj([prompt |-> Str("")])>> }

ConcurrentRemotes == {HttpOk(GoodBody)}

ServeSteps == {30000}

\* The calls that wait for the provider's answer
InFlight == pOut.inflight

InitServe ==
    /\ apiKey = KeyA
    /\ logLevel = "info"
    /\ RATE_LIMIT_MAX \in 1..MaxCapacity
    /\ now = 0
    /\ rateLimitMap = <<>>
    /\ files = <<>>
    /\ dirs = {}
    /\ calls = 0
    /\ history = <<>>
    /\ last = NoCall
    /\ pIn = IdleHarness
    /\ pOut = [op |-> "serving", inflight |-> {}]

\* The call reaches the fetch of the provider request
Suspends(name, args) == Len(Handled(name, args, DefaultEnv).requests) > 0

\* A call whose handler runs to its response without an await
ServeCall ==
    /\ calls < MaxServed
    /\ \E c \in ConcurrentCalls :
          /\ ~Suspends(c[1], c[2])
          /\ CallTool(c[1], c[2], CalmWorld)

\* The handler of a call up to its first await: the rate-limit check, the
\* parse of the arguments and the provider request, sent at the time now
BeginCall ==
    /\ calls < MaxServed
    /\ \E c \in ConcurrentCalls :
          /\ Suspends(c[1], c[2])
          /\ rateLimitMap' = checkRateLimit(rateLimitMap, RATE_LIMIT_MAX, c[1], now).map
          /\ history' = Append(history, [name |-> c[1], at |-> now, accepted |-> TRUE])
          /\ calls' = calls + 1
          /\ pOut' = [pOut EXCEPT !.inflight =
                         @ \cup {[id |-> calls + 1, name |-> c[1], args |-> c[2], at |-> now]}]
    /\ UNCHANGED <<apiKey, logLevel, RATE_LIMIT_MAX, now, files, dirs, last, pIn>>

\* The state after the waiting call c was answered out
Resumed(c, env, out) ==
    /\ files' = out.fs.files
    /\ dirs' = out.fs.dirs
    /\ last' = [name |-> c.name, args |-> c.args, env |-> env, at |-> c.at,
                done |-> TRUE, admitted |-> TRUE,
                response |-> out.response,
                escaped |-> out.escaped, thrown |-> out.thrown,
                log |-> out.log, requests |-> out.requests,
                wrote |-> Written(files, out.fs.files)]
    /\ pOut' = [pOut EXCEPT !.inflight = @ \ {c}]
    /\ UNCHANGED <<apiKey, logLevel, RATE_LIMIT_MAX, now, rateLimitMap, calls, history, pIn>>

\* The provider answers a waiting call, and its handler runs to the response
EndCall ==
    \E c \in InFlight : \E remote \in ConcurrentRemotes :
        Resumed(c, [DefaultEnv EXCEPT !.remote = remote],
                Responded(Dispatch(apiKey, c.name, c.args, FileSystem, c.at,
                                   [DefaultEnv EXCEPT !.remote = remote]),
                          c.name, rateLimitMap, logLevel))

TickServe == \E d \in ServeSteps : Tick(d, MaxNow)

NextServe == ServeCall \/ BeginCall \/ EndCall \/ TickServe

SpecServe == InitServe /\ [][NextServe]_vars

-----------------------------------------------------------------------------
(* Startup: the modules index.ts imports are evaluated, in the order of    *)
(* their import statements and depth first, before the body of index.ts    *)
(* runs dotenv.config() and main()                                         *)

MaxStartCalls == 2

EnvKeys == {"GEMINI_API_KEY", "LOG_LEVEL", "RATE_LIMIT_PER_MINUTE", "OUTPUT_DIR"}

\* The .env file of the README, with a capacity and an output directory
FullDotenv ==
    [k \in EnvKeys |->
        CASE k = "GEMINI_API_KEY" -> KeyA
          [] k = "LOG_LEVEL" -> "debug"
          [] k = "RATE_LIMIT_PER_MINUTE" -> "1"
          [] k = "OUTPUT_DIR" -> "./generated"]

\* A .env file sets some of the keys; none when there is no file
DotenvFiles == {[k \in S |-> FullDotenv[k]] : S \in SUBSET EnvKeys}

\* What the MCP host passes in the environment of the process
ProcessEnvs ==
    {[k \in S |->
        CASE k = "GEMINI_API_KEY" -> KeyB
          [] k = "LOG_LEVEL" -> "info"
          [] k = "RATE_LIMIT_PER_MINUTE" -> "2"
          [] k = "OUTPUT_DIR" -> "./host-images"] :
     S \in {{}, {"GEMINI_API_KEY"}, {"LOG_LEVEL"}, {"RATE_LIMIT_PER_MINUTE"},
            {"OUTPUT_DIR"}}}

\* process.env.KEY || fallback
EnvOr(env, key, fallback) ==
    IF key \in DOMAIN env /\ env[key] # "" THEN env[key] ELSE fallback

\* parseInt(s, 10) on a string without sign or blanks: the value of the
\* leading digits, NaN without one
parseInt(s) ==
    LET n == CHOOSE n \in 0..Len(s) :
                 /\ \A i \in 1..n : IsDigit(CharAt(s, i))
                 /\ n = Len(s) \/ ~IsDigit(CharAt(s, n + 1))
    IN  IF n = 0 THEN NaN ELSE DecimalValue(SubSeq(s, 1, n), 0)

\* dotenv.config(): a key of the file is set unless the environment has it
DotenvConfig(env, file) ==
    [k \in (DOMAIN env) \cup (DOMAIN file) |-> IF k \in DOMAIN env THEN env[k] ELSE file[k]]

\* process.env as the startup has left it so far
ProcessEnv == pOut.env

InitStart ==
    /\ apiKey = ""
    /\ logLevel = "info"
    /\ RATE_LIMIT_MAX = Undefined
    /\ now = 0
    /\ rateLimitMap = <<>>
    /\ files = <<>>
    /\ dirs = {}
    /\ calls = 0
    /\ history = <<>>
    /\ last = NoCall
    /\ pIn \in {[dotenv |-> f, env |-> e] : f \in DotenvFiles, e \in ProcessEnvs}
    /\ pOut = [op |-> "startup", pc |-> "log.js", env |-> pIn.env, OUTPUT_DIR |-> ""]

\* utils/log.js, first reached through providers/geminiProvider.js:
\* export const logger = new Logger()
EvaluateLog ==
    /\ pOut.pc = "log.js"
    /\ logLevel' = IF EnvOr(ProcessEnv, "LOG_LEVEL", "") \in DOMAIN LOG_LEVELS
                   THEN ProcessEnv["LOG_LEVEL"] ELSE "info"
    /\ pOut' = [pOut EXCEPT !.pc = "paths.js"]
    /\ UNCHANGED <<apiKey, RATE_LIMIT_MAX, now, rateLimitMap, files, dirs, calls,
                   history, last, pIn>>

\* utils/paths.js, reached through utils/files.js:
\* const OUTPUT_DIR = process.env.OUTPUT_DIR || './outputs'
EvaluatePaths ==
    /\ pOut.pc = "paths.js"
    /\ pOut' = [pOut EXCEPT !.pc = "server.js",
                            !.OUTPUT_DIR = EnvOr(ProcessEnv, "OUTPUT_DIR", OUTPUT_DIR)]
    /\ UNCHANGED <<apiKey, logLevel, RATE_LIMIT_MAX, now, rateLimitMap, files, dirs,
                   calls, history, last, pIn>>

\* mcp/server.js: const rateLimitMap = new Map(); const RATE_LIMIT_MAX =
\* parseInt(process.env.RATE_LIMIT_PER_MINUTE || '20', 10)
EvaluateServer ==
    /\ pOut.pc = "server.js"
    /\ rateLimitMap' = <<>>
    /\ RATE_LIMIT_MAX' = parseInt(EnvOr(ProcessEnv, "RATE_LIMIT_PER_MINUTE", "20"))
    /\ pOut' = [pOut EXCEPT !.pc = "dotenv.config"]
    /\ UNCHANGED <<apiKey, logLevel, now, files, dirs, calls, history, last, pIn>>

\* The body of index.ts: dotenv.config()
LoadDotenv ==
    /\ pOut.pc = "dotenv.config"
    /\ pOut' = [pOut EXCEPT !.pc = "main", !.env = DotenvConfig(ProcessEnv, pIn.dotenv)]
    /\ UNCHANGED <<pIn, serverVars>>

\* main(): createMCPServer() constructs the provider, which reads the key
CreateServer ==
    /\ pOut.pc = "main"
    /\ apiKey' = EnvOr(ProcessEnv, "GEMINI_API_KEY", "")
    /\ pOut' = [pOut EXCEPT !.pc = "running"]
    /\ UNCHANGED <<logLevel, RATE_LIMIT_MAX, now, rateLimitMap, files, dirs, calls,
                   history, last, pIn>>

\* The running server answers calls, here to a tool it does not have
ServeStarted ==
    /\ pOut.pc = "running"
    /\ calls < MaxStartCalls
    /\ CallTool("resize_image", JUndef, CalmWorld)

NextStart ==
    EvaluateLog \/ EvaluatePaths \/ EvaluateServer \/ LoadDotenv \/ CreateServer
        \/ ServeStarted

SpecStart == InitStart /\ [][NextStart]_vars

-----------------------------------------------------------------------------
(* The tool schemas the server declares (inputSchema of each tool) *)

\* A property of type 'string'; maxLength < 0 is no maxLength, an empty enum
\* is no enum
StringProperty(minLength, maxLength, enum) ==
    [type |-> "string", minLength |-> minLength, maxLength |-> maxLength, enum |-> enum]

GENERATE_IMAGE_SCHEMA ==
    [properties |->
        [prompt |-> StringProperty(1, 2000, {}),
         style |-> StringProperty(0, -1, {"illustration", "3d", "flat", "photoreal", "anime", "pixel"}),
         size |-> StringProperty(0, -1, {"1024x1024", "1024x1536", "1536x1024"}),
         background |-> StringProperty(0, -1, {"transparent", "solid"}),
         output_format |-> StringProperty(0, -1, {"png", "webp"}),
         output_path |-> StringProperty(0, -1, {})],
     required |-> {"prompt"}]

GENERATE_ICON_SCHEMA ==
    [properties |->
        [concept |-> StringProperty(1, 2000, {}),
         theme |-> StringProperty(0, -1, {"minimal", "playful", "corporate"}),
         size |-> StringProperty(0, -1, {"256x256", "512x512"}),
         output_format |-> StringProperty(0, -1, {"png", "webp"})],
     required |-> {"concept"}]

GENERATE_HERO_SCHEMA ==
    [properties |->
        [product_name |-> StringProperty(1, 200, {}),
         tagline |-> StringProperty(1, 500, {}),
         vibe |-> StringProperty(0, 200, {}),
         size |-> StringProperty(0, -1, {"1024x1024", "1024x1536", "1536x1024"}),
         output_format |-> StringProperty(0, -1, {"png", "webp"})],
     required |-> {"product_name", "tagline"}]

BEAUTIFY_SCREENSHOT_SCHEMA ==
    [properties |->
        [input_image_path |-> StringProperty(1, -1, {}),
         goal |-> StringProperty(1, 1000, {}),
         output_format |-> StringProperty(0, -1, {"png", "webp"})],
     required |-> {"input_image_path", "goal"}]

DeclaredSchema(name) ==
    CASE name = "generate_image" -> GENERATE_IMAGE_SCHEMA
      [] name = "generate_icon" -> GENERATE_ICON_SCHEMA
      [] name = "generate_hero" -> GENERATE_HERO_SCHEMA
      [] name = "beautify_screenshot" -> BEAUTIFY_SCREENSHOT_SCHEMA

\* A value of a declared property satisfies type, minLength, maxLength, enum
MatchesProperty(v, p) ==
    /\ IsString(v)
    /\ Len(v.s) >= p.minLength
    /\ p.maxLength < 0 \/ Len(v.s) <= p.maxLength
    /\ p.enum = {} \/ v.s \in p.enum

\* The arguments are an object that has the required properties and whose
\* declared properties all match
MatchesSchema(args, schema) ==
    /\ args.t = "obj"
    /\ schema.required \subseteq DOMAIN args.o
    /\ \A k \in (DOMAIN args.o) \cap (DOMAIN schema.properties) :
          MatchesProperty(args.o[k], schema.properties[k])

-----------------------------------------------------------------------------
(* Claims about the server *)

\* The payload of the response to the last call
Payload == last.response.content[1].json

\* q lies below dir
Descendant(q, dir) ==
    /\ NormalizeAbsolute(q) = q
    /\ Len(q) > Len(dir) + 1
    /\ startsWith(q, dir \o "/")

\* The last call is a generate_image call that names an output_path which
\* the containment check refuses
RefusedOutputPath ==
    /\ last.done
    /\ last.name = "generate_image"
    /\ IsString(Get(last.args, "output_path"))
    /\ Get(last.args, "output_path").s # ""
    /\ ~startsWith(resolve(PROJECT_ROOT, Get(last.args, "output_path").s), OUTPUTS_PATH)

\* C1: after any sequence of tool calls every file written lies at a path
\* below the configured output directory, and a call whose output_path
\* fails the containment check fails and has written no file.
C1_WritesUnderOutputs ==
    /\ \A q \in DOMAIN files : Descendant(q, OUTPUTS_PATH)
    /\ last.done => \A q \in last.wrote : Descendant(q, OUTPUTS_PATH)
    /\ RefusedOutputPath =>
          /\ last.wrote = {}
          /\ last.requests = <<>>
          /\ Payload.ok = FALSE
          /\ "error" \in DOMAIN Payload

\* After a call whose output_path named another directory was saved under
\* the output directory, a call with an output_path outside it has failed
C1_Witness ==
    /\ calls = 2
    /\ OUTPUTS_PATH \o "/x.png" \in DOMAIN files
    /\ RefusedOutputPath
    /\ last.admitted
    /\ Get(last.args, "output_path").s = "/etc/passwd"
    /\ last.thrown.message = "Invalid output path: must be within outputs directory"

\* The accepted calls to the tool of call k that lie less than 60 seconds
\* before it
AcceptedBefore(k) ==
    {j \in 1..(k - 1) : /\ history[j].name = history[k].name
                        /\ history[j].accepted
                        /\ history[k].at - history[j].at < 60 * 1000}

\* C2: with capacity N a call is rejected with the rate-limit error exactly
\* when N accepted calls to the same tool lie within the 60 seconds before
\* it, so it is accepted again once 60 seconds have passed since the oldest
\* of them; no 60-second window holds more than N accepted calls to a tool.
C2_SlidingWindow ==
    /\ \A k \in 1..Len(history) :
          history[k].accepted <=> Cardinality(AcceptedBefore(k)) < RATE_LIMIT_MAX
    /\ \A k \in 1..Len(history) :
          history[k].accepted => Cardinality(AcceptedBefore(k) \cup {k}) <= RATE_LIMIT_MAX
    /\ (last.done /\ ~last.admitted) =>
          /\ Payload = [ok |-> FALSE,
                        error |-> "Rate limit exceeded: max " \o ToStr(RATE_LIMIT_MAX)
                                      \o " requests per minute"]
          /\ last.wrote = {}
          /\ last.requests = <<>>

\* With capacity 1: a call is accepted, a second one 40 seconds later is
\* rejected, and a third one exactly 60 seconds after the first is accepted
C2_Witness ==
    /\ RATE_LIMIT_MAX = 1
    /\ Len(history) = 3
    /\ \A k \in 1..3 : history[k].name = "beautify_screenshot"
    /\ history[1].accepted /\ ~history[2].accepted /\ history[3].accepted
    /\ history[2].at - history[1].at = 40000
    /\ history[3].at - history[1].at = 60000

\* C3: every failure of a tool call is caught in the handler and answered
\* with the payload {ok: false, error: message}; no exception leaves the
\* call-tool handler.
C3_FailuresCaught ==
    last.done =>
        /\ ~last.escaped
        /\ Len(last.response.content) = 1
        /\ last.thrown.type # "" => Payload = [ok |-> FALSE, error |-> last.thrown.message]

\* A call that failed while writing its file, followed by a call that was
\* throttled
C3_Witness ==
    /\ RATE_LIMIT_MAX = 1
    /\ calls = 2
    /\ \E q \in DOMAIN files : "truncated" \in DOMAIN files[q]
    /\ history[1].accepted
    /\ last.name = "generate_image"
    /\ ~last.admitted
    /\ last.thrown.type = "Error"
    /\ Payload.ok = FALSE

\* C4: a call to a tool that passes the rate-limit check with arguments that
\* do not match the tool's declared schema fails with a validation error,
\* has sent no request and has written no file.
C4_ValidationFirst ==
    (/\ last.done
     /\ last.name \in ToolNames
     /\ last.admitted
     /\ ~MatchesSchema(last.args, DeclaredSchema(last.name)))
    => /\ last.thrown.type = "ZodError"
       /\ Payload = [ok |-> FALSE, error |-> last.thrown.message]
       /\ last.requests = <<>>
       /\ last.wrote = {}

\* generate_image with a style outside the declared enum, on a configured
\* server, has failed validation
C4_Witness ==
    /\ last.done
    /\ apiKey = KeyA
    /\ last.name = "generate_image"
    /\ Get(last.args, "style") = JStr("cubist")
    /\ last.thrown.type = "ZodError"
    /\ Payload.ok = FALSE

\* The hero prompt composed from the arguments of a call
ComposedHeroPrompt(args) ==
    LET vibe == Get(args, "vibe") IN
    "Hero banner image for \"" \o Get(args, "product_name").s \o "\". "
        \o Get(args, "tagline").s
        \o (IF Truthy(vibe) THEN ", " \o vibe.s \o " vibe" ELSE "")
        \o ". Professional, eye-catching, suitable for website header."

\* C5: generate_hero with valid arguments on a server without a credential
\* answers {ok: false, suggested_prompt, message} with the hero prompt
\* composed from product_name, tagline and vibe, sends no request and writes
\* no file.
C5_HeroDegraded ==
    (/\ last.done
     /\ last.name = "generate_hero"
     /\ last.admitted
     /\ apiKey = ""
     /\ MatchesSchema(last.args, GENERATE_HERO_SCHEMA))
    => /\ last.thrown.type = ""
       /\ DOMAIN Payload = {"ok", "suggested_prompt", "message"}
       /\ Payload.ok = FALSE
       /\ Payload.suggested_prompt = ComposedHeroPrompt(last.args)
       /\ Payload.message = "Image provider not configured. Configure GEMINI_API_KEY to generate images."
       /\ last.requests = <<>>
       /\ last.wrote = {}

\* generate_hero with product name, tagline and vibe has answered on a
\* server without a credential
C5_Witness ==
    /\ last.done
    /\ apiKey = ""
    /\ last.name = "generate_hero"
    /\ last.args = HeroCall
    /\ Payload.suggested_prompt =
          "Hero banner image for \"BananaMCP\". The sweetest MCP server for image generation, modern vibe. Professional, eye-catching, suitable for website header."

\* The texts of a log line
LineTexts(e) == IF "text" \in DOMAIN e THEN {e.message, e.text} ELSE {e.message}

\* The same call in the same state with the same answers of the world, on a
\* server configured with another credential
Twin(call) ==
    CallToolHandler(KeyB, logLevel, RATE_LIMIT_MAX, rateLimitMap, FileSystem, now,
                    call.name, call.args, call.env)

C6_Step ==
    (apiKey = KeyA /\ calls' = calls + 1) =>
        /\ Twin(last').response = last'.response
        /\ Twin(last').log = last'.log
        /\ \A k \in DOMAIN last'.response.content[1].json :
              k \in {"error", "message", "suggested_prompt"}
                 => ~includes(last'.response.content[1].json[k], apiKey)
        /\ \A i \in 1..Len(last'.log) :
              \A x \in LineTexts(last'.log[i]) : ~includes(x, apiKey)

\* C6: the credential appears in no payload text and in no log line of a
\* call, and the call made with another credential against the same answers
\* of the world gives the same response and the same log lines.
C6_NoCredentialLeak == [][C6_Step]_vars

\* A call on a server that logs at debug level has sent the credential to
\* the provider and has failed
C6_Witness ==
    /\ last.done
    /\ apiKey = KeyA
    /\ logLevel = "debug"
    /\ Len(last.requests) > 0
    /\ last.requests[1].headers.xGoogApiKey = KeyA
    /\ last.thrown.type # ""
    /\ Payload.ok = FALSE

-----------------------------------------------------------------------------
(* Provider harness: parseResponse and generateImage applied to one input *)

HarnessOptions ==
    [prompt |-> "a banana", style |-> "illustration",
     size |-> SizeString(pIn.w, pIn.h), background |-> "solid", format |-> "png"]

InitProvider ==
    /\ apiKey = KeyA
    /\ logLevel = "info"
    /\ RATE_LIMIT_MAX = DefaultRateLimit
    /\ now = 0
    /\ rateLimitMap = <<>>
    /\ files = <<>>
    /\ dirs = {}
    /\ calls = 0
    /\ history = <<>>
    /\ last = NoCall
    /\ pIn \in {[body |-> b, w |-> p[1], h |-> p[2]] : b \in Bodies, p \in SizePairs}
    /\ pOut = [op |-> "none"]

\* parseResponse of the official-format provider on the body
Parse ==
    /\ pOut.op = "none"
    /\ pOut' = [op |-> "parseResponse",
                r |-> parseResponse(pIn.body, SizeString(pIn.w, pIn.h))]
    /\ UNCHANGED <<pIn, serverVars>>

\* parseResponse of the generic adapter on the body
ParseGeneric ==
    /\ pOut.op = "none"
    /\ pOut' = [op |-> "parseResponseGeneric",
                r |-> parseResponseGeneric(pIn.body, SizeString(pIn.w, pIn.h))]
    /\ UNCHANGED <<pIn, serverVars>>

\* generateImage whose fetch succeeds with the body
Generate ==
    /\ pOut.op = "none"
    /\ pOut' = [op |-> "generateImage",
                r |-> generateImage(apiKey, HarnessOptions, HttpOk(pIn.body))]
    /\ UNCHANGED <<pIn, serverVars>>

\* What the remote end does when the fetch gets no usable response
Unanswered ==
    {NetError, BadJson, HttpError(500, "Internal Server Error", "upstream exploded"),
     HttpError(429, "Too Many Requests", "quota exceeded")}

\* generateImage whose fetch fails, so that no body is read
GenerateUnanswered ==
    /\ pOut.op = "none"
    /\ pIn.body = JNull
    /\ \E remote \in Unanswered :
          pOut' = [op |-> "generateImage unanswered", remote |-> remote,
                   r |-> generateImage(apiKey, HarnessOptions, remote)]
    /\ UNCHANGED <<pIn, serverVars>>

NextProvider == Parse \/ ParseGeneric \/ Generate \/ GenerateUnanswered

SpecProvider == InitProvider /\ [][NextProvider]_vars

-----------------------------------------------------------------------------
(* The request body the provider builds for a requested size *)

MaxDim == 20

\* Widths and heights: the small ones give every ratio band and its edges,
\* the large ones the sizes of the API and the edges of the tiers
Dims == (1..MaxDim) \cup {1024, 1025, 1536, 1792, 2000, 2048, 2049, 3000}

InitSize ==
    /\ apiKey = KeyA
    /\ logLevel = "info"
    /\ RATE_LIMIT_MAX = DefaultRateLimit
    /\ now = 0
    /\ rateLimitMap = <<>>
    /\ files = <<>>
    /\ dirs = {}
    /\ calls = 0
    /\ history = <<>>
    /\ last = NoCall
    /\ pIn \in {[body |-> JNull, w |-> w, h |-> h] : w \in Dims, h \in Dims}
    /\ pOut = [op |-> "none"]

\* buildRequestBody for the size pIn.w x pIn.h
BuildRequest ==
    /\ pOut.op = "none"
    /\ pOut' = [op |-> "buildRequestBody", r |-> buildRequestBody(HarnessOptions)]
    /\ UNCHANGED <<pIn, serverVars>>

NextSize == BuildRequest

SpecSize == InitSize /\ [][NextSize]_vars

-----------------------------------------------------------------------------
(* The prompt text the provider builds from prompt, style and background *)

Prompts ==
    {"a banana", "A cute cartoon banana wearing sunglasses", "logo, transparent background",
     "3D rendered style, a rocket"}

\* The styles of the schema, no style, and a style the table does not have
Styles == {"", "illustration", "3d", "flat", "photoreal", "anime", "pixel", "watercolor"}

Backgrounds == {"", "solid", "transparent"}

InitPrompt ==
    /\ apiKey = KeyA
    /\ logLevel = "info"
    /\ RATE_LIMIT_MAX = DefaultRateLimit
    /\ now = 0
    /\ rateLimitMap = <<>>
    /\ files = <<>>
    /\ dirs = {}
    /\ calls = 0
    /\ history = <<>>
    /\ last = NoCall
    /\ pIn \in {[prompt |-> q, style |-> st, background |-> bg] :
                   q \in Prompts, st \in Styles, bg \in Backgrounds}
    /\ pOut = [op |-> "none"]

\* buildRequestBody for the prompt, the style and the background of pIn
BuildPrompt ==
    /\ pOut.op = "none"
    /\ pOut' = [op |-> "buildRequestBody",
                r |-> buildRequestBody([prompt |-> pIn.prompt, style |-> pIn.style,
                                        size |-> "1024x1024",
                                        background |-> pIn.background, format |-> "png"])]
    /\ UNCHANGED <<pIn, serverVars>>

NextPrompt == BuildPrompt

SpecPrompt == InitPrompt /\ [][NextPrompt]_vars

-----------------------------------------------------------------------------
(* The path guard on names of up to MaxSegments segments *)

MaxSegments == 4

Segments == {"..", ".", "etc", "passwd", "my_image.png", "outputs", ""}

\* The names of at most n segments; an empty first segment makes the name
\* absolute, an empty last one ends it with a separator
RECURSIVE Names(_)
Names(n) ==
    IF n = 1 THEN Segments
    ELSE Names(n - 1) \cup {q \o "/" \o seg : q \in Names(n - 1), seg \in Segments}

InitPath ==
    /\ apiKey = KeyA
    /\ logLevel = "info"
    /\ RATE_LIMIT_MAX = DefaultRateLimit
    /\ now = 0
    /\ rateLimitMap = <<>>
    /\ files = <<>>
    /\ dirs = {}
    /\ calls = 0
    /\ history = <<>>
    /\ last = NoCall
    /\ pIn \in {[name |-> q] : q \in Names(MaxSegments)}
    /\ pOut = [op |-> "none"]

\* safeJoinOutputs(name)
SafeJoin ==
    /\ pOut.op = "none"
    /\ pOut' = [op |-> "safeJoinOutputs", r |-> safeJoinOutputs(pIn.name)]
    /\ UNCHANGED <<pIn, serverVars>>

\* validateOutputPath(name)
ValidatePath ==
    /\ pOut.op = "none"
    /\ pOut' = [op |-> "validateOutputPath", r |-> validateOutputPath(pIn.name)]
    /\ UNCHANGED <<pIn, serverVars>>

NextPath == SafeJoin \/ ValidatePath

SpecPath == InitPath /\ [][NextPath]_vars

-----------------------------------------------------------------------------
(* The five response shapes, read without ever failing *)

\* The parts of a candidate, or none when the candidate is malformed
SafeParts(candidate) ==
    LET parts == Get(Get(candidate, "content"), "parts") IN
    IF IsArray(parts) THEN parts.a ELSE <<>>

RECURSIVE FlattenParts(_)
FlattenParts(candidates) ==
    IF Len(candidates) = 0 THEN <<>>
    ELSE SafeParts(candidates[1]) \o FlattenParts(Tail(candidates))

\* Every inline_data.data value of the body, in candidate then part order
InlineDataValues(body) ==
    LET c == Get(body, "candidates")
        parts == IF IsArray(c) THEN FlattenParts(c.a) ELSE <<>>
        values == [i \in 1..Len(parts) |-> Get(Get(parts[i], "inline_data"), "data")]
    IN  SelectSeq(values, LAMBDA v : v.t # "undef")

NoMatch == [match |-> FALSE]

Match(shape, data) == [match |-> TRUE, shape |-> shape, data |-> data]

ShapeNested(body) ==
    LET found == SelectSeq(InlineDataValues(body), Truthy) IN
    IF Len(found) > 0 THEN Match("candidates", found[1]) ELSE NoMatch

ShapeField(body, k) ==
    LET v == Get(body, k) IN
    IF IsString(v) /\ v.s # "" THEN Match(k, v) ELSE NoMatch

\* A non-empty images array
HasImages(body) ==
    LET v == Get(body, "images") IN IsArray(v) /\ Len(v.a) > 0

\* The images array shape with a string as its first element
ShapeImages(body) ==
    IF HasImages(body) /\ Truthy(Get(body, "images").a[1]) /\ IsString(Get(body, "images").a[1])
    THEN Match("images", Get(body, "images").a[1])
    ELSE NoMatch

ShapesInOrder(body) ==
    <<ShapeNested(body), ShapeField(body, "image"), ShapeField(body, "data"),
      ShapeField(body, "url"), ShapeImages(body)>>

\* The first shape, in priority order, that the body matches
FirstMatch(body) ==
    LET matching == SelectSeq(ShapesInOrder(body), LAMBDA m : m.match) IN
    IF Len(matching) > 0 THEN matching[1] ELSE NoMatch

\* The first fallback shape that the body matches
FirstFallback(body) ==
    LET matching == SelectSeq(Tail(ShapesInOrder(body)), LAMBDA m : m.match) IN
    IF Len(matching) > 0 THEN matching[1] ELSE NoMatch

\* The documented nested shape: a list of candidates, each an object whose
\* content holds a list of part objects
WellFormedNested(body) ==
    LET c == Get(body, "candidates") IN
    /\ IsArray(c)
    /\ \A i \in 1..Len(c.a) :
          /\ c.a[i].t = "obj"
          /\ Get(c.a[i], "content").t = "obj"
          /\ IsArray(Get(Get(c.a[i], "content"), "parts"))
          /\ \A j \in 1..Len(SafeParts(c.a[i])) : SafeParts(c.a[i])[j].t = "obj"

-----------------------------------------------------------------------------
(* Claims about response parsing, checked under SpecProvider *)

Parsed == pOut.op = "parseResponse"

\* C7: parsing tries the nested shape, the image field, the data field, the
\* url field and the images array in this order, returns the payload of the
\* first shape that matches, and fails only when none of them matches, also
\* when an earlier shape is present but malformed.
C7_OrderedFallback ==
    Parsed =>
        LET expected == FirstMatch(pIn.body) IN
        IF expected.match
        THEN pOut.r.ok /\ pOut.r.data = expected.data
        ELSE ~pOut.r.ok

\* C8: when the nested shape does not match and one of the four fallback
\* shapes holds a string payload, parsing succeeds and the tag is 'url'
\* exactly when the payload begins with 'http', and 'base64' otherwise.
C8_FallbackTags ==
    Parsed =>
        LET fallback == FirstFallback(pIn.body) IN
        (/\ WellFormedNested(JObj([candidates |-> Get(pIn.body, "candidates")]))
            \/ Get(pIn.body, "candidates").t = "undef"
         /\ ~ShapeNested(pIn.body).match
         /\ fallback.match
         /\ IsString(fallback.data))
        => /\ pOut.r.ok
           /\ pOut.r.data = fallback.data
           /\ pOut.r.format = (IF startsWith(fallback.data.s, "http") THEN "url" ELSE "base64")

\* C9: generateImage on a fetched body that matches none of the five shapes
\* fails with the provider's parse error, and returns no result.
C9_ParseErrorOnly ==
    (pOut.op = "generateImage" /\ ~FirstMatch(pIn.body).match /\ ~HasImages(pIn.body))
    => /\ ~pOut.r.ok
       /\ pOut.r.type = "Error"
       /\ pOut.r.message = WrapMessage(ParseErrorMessage)

\* C10 as stated: on a response of the documented nested shape holding some
\* inline_data.data, parsing returns format 'base64', the first
\* inline_data.data value in candidate then part order, and the requested
\* width and height.
C10_FirstInlineData ==
    (Parsed /\ WellFormedNested(pIn.body) /\ ShapeNested(pIn.body).match)
    => /\ pOut.r.ok
       /\ pOut.r.format = "base64"
       /\ pOut.r.data = InlineDataValues(pIn.body)[1]
       /\ pOut.r.width = pIn.w
       /\ pOut.r.height = pIn.h

\* C10 amended: on a response of the documented nested shape, parsing
\* returns format 'base64', the first non-empty inline_data.data value in
\* candidate then part order, and the requested width and height.
C10_FirstNonEmptyInlineData ==
    (Parsed /\ WellFormedNested(pIn.body) /\ ShapeNested(pIn.body).match)
    => /\ pOut.r.ok
       /\ pOut.r.format = "base64"
       /\ pOut.r.data = ShapeNested(pIn.body).data
       /\ pOut.r.width = pIn.w
       /\ pOut.r.height = pIn.h

\* A parsed response of two candidates whose first part holds no image data,
\* with a non-square requested size
C10_Witness ==
    /\ Parsed
    /\ WellFormedNested(pIn.body)
    /\ Len(Get(pIn.body, "candidates").a) = 2
    /\ ~Truthy(Get(Get(SafeParts(Get(pIn.body, "candidates").a[1])[1], "inline_data"), "data"))
    /\ Len(InlineDataValues(pIn.body)) = 2
    /\ pIn.w # pIn.h
    /\ pOut.r.ok
    /\ pOut.r.data = JStr(B64A)

-----------------------------------------------------------------------------
(* Claims about the request body *)

Built == pOut.op = "buildRequestBody"

ImageConfig == pOut.r.generationConfig.imageConfig

\* The tag with its two numbers swapped
SwapTag(tag) ==
    LET p == split(tag, ":") IN p[2] \o ":" \o p[1]

\* The tag of the claim for a long side a and a short side b, a > b: the
\* ratio a / b against the bands [1.4, 1.6] and [1.7, oo)
BandTag(a, b) ==
    IF 5 * a >= 7 * b /\ 5 * a <= 8 * b THEN "3:2"
    ELSE IF 10 * a >= 17 * b THEN "16:9"
    ELSE "4:3"

\* The aspect ratio in the request body built for the size w x h
AspectRatioOf(w, h) ==
    buildRequestBody([HarnessOptions EXCEPT !.size = SizeString(w, h)])
        .generationConfig.imageConfig.aspectRatio

\* C11: the aspect-ratio tag is '1:1' for a square; for a landscape size
\* '3:2' when w/h is in [1.4, 1.6], '16:9' when w/h >= 1.7, else '4:3'; for
\* a portrait size the mirrored tags on h/w; the four sizes of the spec get
\* their tags, and swapping w and h swaps the two numbers of the tag.
C11_AspectRatioBands ==
    Built =>
        /\ pIn.w = pIn.h => ImageConfig.aspectRatio = "1:1"
        /\ pIn.w > pIn.h => ImageConfig.aspectRatio = BandTag(pIn.w, pIn.h)
        /\ pIn.w < pIn.h => ImageConfig.aspectRatio = SwapTag(BandTag(pIn.h, pIn.w))
        /\ (pIn.w = 1024 /\ pIn.h = 1024) => ImageConfig.aspectRatio = "1:1"
        /\ (pIn.w = 1536 /\ pIn.h = 1024) => ImageConfig.aspectRatio = "3:2"
        /\ (pIn.w = 1024 /\ pIn.h = 1536) => ImageConfig.aspectRatio = "2:3"
        /\ 4 * pIn.w = 7 * pIn.h => ImageConfig.aspectRatio = "16:9"
        /\ AspectRatioOf(pIn.h, pIn.w) = SwapTag(ImageConfig.aspectRatio)

\* A landscape size whose ratio is exactly 1.7, the edge of the wide band
C11_Witness ==
    /\ Built
    /\ 10 * pIn.w = 17 * pIn.h
    /\ ImageConfig.aspectRatio = "16:9"
    /\ AspectRatioOf(pIn.h, pIn.w) = "9:16"

\* The tier of the claim for a larger dimension m
TierOf(m) == IF m <= 1024 THEN "1K" ELSE IF m <= 2048 THEN "2K" ELSE "4K"

\* C12: the size tier is '1K' when the larger of width and height is at most
\* 1024, '2K' when it is above 1024 and at most 2048, '4K' otherwise; 1024
\* gives '1K', 2000 '2K', 3000 '4K'; the smaller dimension does not matter.
C12_SizeTier ==
    Built =>
        \A m \in Dims :
            (pIn.w <= m /\ pIn.h <= m /\ (pIn.w = m \/ pIn.h = m))
            => /\ ImageConfig.imageSize = TierOf(m)
               /\ m = 1024 => ImageConfig.imageSize = "1K"
               /\ m = 2000 => ImageConfig.imageSize = "2K"
               /\ m = 3000 => ImageConfig.imageSize = "4K"

\* A portrait size whose height alone puts it in the '2K' tier
C12_Witness ==
    /\ Built
    /\ pIn.w <= 1024
    /\ pIn.h = 2000
    /\ ImageConfig.imageSize = "2K"

-----------------------------------------------------------------------------
(* Claims about network calls *)

\* C13: an invocation of generateImage on a configured adapter issues
\* exactly one request, a POST to the provider endpoint, whether the fetch
\* fails, the response is an error, or the body parses or does not parse.
C13_OneProviderRequest ==
    (pOut.op \in {"generateImage", "generateImage unanswered"} /\ isConfigured(apiKey))
    => /\ Len(pOut.r.requests) = 1
       /\ pOut.r.requests[1].url = endpoint
       /\ pOut.r.requests[1].method = "POST"

\* A fetch that fails on the network: the call fails after its one request
C13_Witness ==
    /\ pOut.op = "generateImage unanswered"
    /\ pOut.remote = NetError
    /\ ~pOut.r.ok
    /\ Len(pOut.r.requests) = 1

\* C14: a tool invocation, from dispatch to the returned payload, performs
\* at most one outbound network call, whatever the provider responds.
C14_AtMostOneCall ==
    last.done => Len(last.requests) <= 1

-----------------------------------------------------------------------------
(* Claims about output paths *)

\* The last call is an admitted, valid generate_image call whose output_path
\* is a simple filename, without a directory separator
SimpleFilenameCall ==
    /\ last.done
    /\ last.name = "generate_image"
    /\ last.admitted
    /\ MatchesSchema(last.args, DeclaredSchema("generate_image"))
    /\ IsString(Get(last.args, "output_path"))
    /\ Get(last.args, "output_path").s # ""
    /\ ~includes(Get(last.args, "output_path").s, "/")

\* The provider is configured and answers the call with a response that
\* parses
AdapterSucceeds ==
    /\ isConfigured(apiKey)
    /\ last.env.remote.kind = "ok"
    /\ parseResponse(last.env.remote.body, "1024x1024").ok

\* C15: generate_image with a simple filename as output_path passes the
\* path check, and on adapter success the image is saved under that name
\* inside the output directory.
C15_SimpleFilenameSaved ==
    SimpleFilenameCall =>
        /\ last.thrown.message # "Invalid output path: must be within outputs directory"
        /\ (AdapterSucceeds /\ last.env.disk = "ok")
           => /\ Payload.ok
              /\ pathJoin(OUTPUTS_PATH, Get(last.args, "output_path").s) \in last.wrote

\* C16: safeJoinOutputs rejects the name ../../etc/passwd and every name
\* that contains a path separator, and for a bare filename returns the path
\* of that name in the output directory.
C16_SafeJoinRejects ==
    pOut.op = "safeJoinOutputs" =>
        /\ pIn.name = "../../etc/passwd" => ~pOut.r.ok
        /\ includes(pIn.name, "/") => ~pOut.r.ok
        /\ (~includes(pIn.name, "/") /\ pIn.name \notin {"", ".", ".."})
           => /\ pOut.r.ok
              /\ pOut.r.path = OUTPUTS_PATH \o "/" \o pIn.name

\* The path the last beautify_screenshot call names, resolved against the
\* project root
BeautifiedPath == resolve(PROJECT_ROOT, Get(last.args, "input_image_path").s)

\* C17: beautify_screenshot answers ok:true only when input_image_path,
\* resolved against the project root, is the output directory or lies below
\* it; a path in a sibling directory whose name starts with the output
\* directory's name is refused; either way the call makes no network call
\* and writes no file.
C17_BeautifyUnderOutputs ==
    (/\ last.done
     /\ last.name = "beautify_screenshot"
     /\ IsString(Get(last.args, "input_image_path")))
    => /\ Payload.ok => \/ BeautifiedPath = OUTPUTS_PATH
                        \/ Descendant(BeautifiedPath, OUTPUTS_PATH)
       /\ last.requests = <<>>
       /\ last.wrote = {}

-----------------------------------------------------------------------------
(* Claims about rejected calls *)

\* A step in which a call is answered by the rate limiter's rejection
Rejected ==
    /\ calls' = calls + 1
    /\ ~last'.admitted

\* C18: a call the rate limiter rejects has no side effects: the timestamps
\* kept for every tool are the same after the call as before it, the
\* arguments are not validated (the answer is the rate-limit error also for
\* arguments the schema refuses), no request is sent and no file or
\* directory is created.
C18_Step ==
    Rejected =>
        /\ rateLimitMap' = rateLimitMap
        /\ last'.response.content[1].json =
               [ok |-> FALSE, error |-> RateLimitMessage(RATE_LIMIT_MAX)]
        /\ last'.requests = <<>>
        /\ last'.wrote = {}
        /\ files' = files
        /\ dirs' = dirs

C18_RejectedNoEffect == [][C18_Step]_vars

\* A generate_image call with an empty prompt is rejected after an accepted
\* call has used the tool's quota of one
C18_Witness ==
    /\ RATE_LIMIT_MAX = 1
    /\ Len(history) = 2
    /\ history[1].accepted /\ ~history[2].accepted
    /\ last.name = "generate_image"
    /\ last.args = JObj([prompt |-> Str("")])
    /\ ~last.admitted
    /\ rateLimitMap = [generate_image |-> <<0>>]

-----------------------------------------------------------------------------
(* Claims about saved images *)

GenerateTools == {"generate_image", "generate_icon", "generate_hero"}

\* The arguments of the last call as the tool's schema parses them
GenerateInput ==
    CASE last.name = "generate_image" -> generateImageInputSchema(last.args)
      [] last.name = "generate_icon" -> generateIconInputSchema(last.args)
      [] last.name = "generate_hero" -> generateHeroInputSchema(last.args)

\* The last call is a valid call to a generating tool, and the provider has
\* answered its request with a response that parses to base64 data
Base64Answered ==
    /\ last.done
    /\ last.name \in GenerateTools
    /\ last.admitted
    /\ GenerateInput.ok
    /\ Len(last.requests) >= 1
    /\ last.env.remote.kind = "ok"
    /\ parseResponse(last.env.remote.body, GenerateInput.input.size).ok
    /\ parseResponse(last.env.remote.body, GenerateInput.input.size).format = "base64"
    /\ IsString(parseResponse(last.env.remote.body, GenerateInput.input.size).data)

\* The width and the height each size of the schemas asks for
Dimensions ==
    ("256x256" :> <<256, 256>>) @@ ("512x512" :> <<512, 512>>)
    @@ ("1024x1024" :> <<1024, 1024>>) @@ ("1024x1536" :> <<1024, 1536>>)
    @@ ("1536x1024" :> <<1536, 1024>>)

MimeTypes == ("png" :> "image/png") @@ ("webp" :> "image/webp")

\* The payload reports a file that exists below the output directory, by a
\* path relative to the project root, with the MIME type of the requested
\* format and the requested width and height; the call has written no other
\* file
SavedPayload ==
    /\ Payload.ok
    /\ "file_path" \in DOMAIN Payload
    /\ ~startsWith(Payload.file_path, "/")
    /\ Descendant(resolve(PROJECT_ROOT, Payload.file_path), OUTPUTS_PATH)
    /\ resolve(PROJECT_ROOT, Payload.file_path) \in DOMAIN files
    /\ last.wrote \subseteq {resolve(PROJECT_ROOT, Payload.file_path)}
    /\ Payload.mime_type = MimeTypes[GenerateInput.input.output_format]
    /\ Payload.width = Dimensions[GenerateInput.input.size][1]
    /\ Payload.height = Dimensions[GenerateInput.input.size][2]

WriteSucceeds ==
    /\ last.env.disk = "ok"
    /\ (last.name = "generate_image" /\ GenerateInput.input.output_path # "")
       => basename(GenerateInput.input.output_path) \notin {"", ".", ".."}

C20_NoPartialFile ==
    \A q \in DOMAIN files :
        Descendant(q, OUTPUTS_PATH) => "truncated" \notin DOMAIN files[q]

-----------------------------------------------------------------------------
(* Claims about concurrent calls *)

RECURSIVE AcceptedTimes(_, _)
\* The times of the accepted calls to a tool among the first n calls, in the
\* order of the calls
AcceptedTimes(tool, n) ==
    IF n = 0 THEN <<>>
    ELSE IF history[n].name = tool /\ history[n].accepted
         THEN Append(AcceptedTimes(tool, n - 1), history[n].at)
         ELSE AcceptedTimes(tool, n - 1)

\* The list kept for a tool holds the times of its accepted calls, each
\* once and in order, less only times at the front that had left the
\* window when the last call was accepted
RecordedOnce(tool) ==
    LET T == AcceptedTimes(tool, Len(history))
        kept == Timestamps(rateLimitMap, tool)
    IN  /\ Len(kept) <= Len(T)
        /\ kept = SubSeq(T, Len(T) - Len(kept) + 1, Len(T))
        /\ \A i \in 1..(Len(T) - Len(kept)) : T[Len(T)] - T[i] >= 60 * 1000

\* C21: when calls are delivered while the handlers of earlier calls wait
\* for the provider, the rate limiter's step of a call is not interleaved
\* with that of another: every accepted call's timestamp is recorded once,
\* none is lost, and no 60-second window holds more accepted calls to a
\* tool than the capacity.
C21_LimiterNotInterleaved ==
    /\ \A k \in 1..Len(history) :
          history[k].accepted => Cardinality(AcceptedBefore(k) \cup {k}) <= RATE_LIMIT_MAX
    /\ \A k \in 1..Len(history) : RecordedOnce(history[k].name)

\* With capacity 2, two generate_image calls wait for the provider at the
\* same time, both recorded, and a third call delivered meanwhile has been
\* rejected
C21_Witness ==
    /\ pOut.op = "serving"
    /\ RATE_LIMIT_MAX = 2
    /\ Cardinality(InFlight) = 2
    /\ \A c \in InFlight : c.name = "generate_image" /\ c.at = 0
    /\ Len(history) = 3
    /\ history[3].name = "generate_image" /\ ~history[3].accepted
    /\ rateLimitMap["generate_image"] = <<0, 0>>

-----------------------------------------------------------------------------
(* Claims about the two response parsers *)

\* C22: every response body the generic adapter's parseResponse parses is
\* parsed by the parseResponse of the official-format provider as well, to
\* the same data and the same format tag.
C22_BackwardCompatible ==
    (pOut.op = "parseResponseGeneric" /\ pOut.r.ok) =>
        /\ parseResponse(pIn.body, SizeString(pIn.w, pIn.h)).ok
        /\ parseResponse(pIn.body, SizeString(pIn.w, pIn.h)).data = pOut.r.data
        /\ parseResponse(pIn.body, SizeString(pIn.w, pIn.h)).format = pOut.r.format

-----------------------------------------------------------------------------
(* Claims about the provider's failures *)

\* The last call is a valid generate_image or generate_icon call that has
\* come to the provider: its output_path, if it names one, passed the check
AdapterCall ==
    /\ last.done
    /\ last.name \in {"generate_image", "generate_icon"}
    /\ last.admitted
    /\ GenerateInput.ok
    /\ (last.name = "generate_image" /\ GenerateInput.input.output_path # "")
       => validateOutputPath(GenerateInput.input.output_path).ok

\* C23: generateImage returns a result only when the provider is
\* configured, the remote call answers with a success status and the body
\* has a known shape; unconfigured it fails without a network call, on a
\* non-success status it fails without parsing the body, and generate_image
\* and generate_icon then answer {ok: false, error}.
C23_ProviderFailures ==
    AdapterCall =>
        /\ Payload.ok =>
              /\ isConfigured(apiKey)
              /\ last.env.remote.kind = "ok"
              /\ parseResponse(last.env.remote.body, GenerateInput.input.size).ok
        /\ ~isConfigured(apiKey) =>
              /\ last.requests = <<>>
              /\ last.wrote = {}
              /\ Payload = [ok |-> FALSE,
                            error |-> "Gemini provider not configured. Set GEMINI_API_KEY in your .env file"]
        /\ (isConfigured(apiKey) /\ last.env.remote.kind = "http") =>
              /\ Len(last.requests) = 1
              /\ last.wrote = {}
              /\ Payload = [ok |-> FALSE,
                            error |-> "Image generation failed: Gemini API error: "
                                          \o ToStr(last.env.remote.status) \o " "
                                          \o last.env.remote.statusText]
              /\ \A i \in 1..Len(last.log) :
                    last.log[i].message # "Unable to parse Gemini response:"
        /\ (/\ isConfigured(apiKey)
            /\ last.env.remote.kind = "ok"
            /\ ~parseResponse(last.env.remote.body, GenerateInput.input.size).ok) =>
              /\ Payload.ok = FALSE
              /\ DOMAIN Payload = {"ok", "error"}
              /\ last.wrote = {}

\* generate_icon on a configured server, answered by the provider with
\* status 500, has failed with the provider's status in the error
C23_Witness ==
    /\ AdapterCall
    /\ last.name = "generate_icon"
    /\ apiKey = KeyA
    /\ last.env.remote.kind = "http"
    /\ last.env.remote.status = 500
    /\ Payload.ok = FALSE
    /\ Payload.error = "Image generation failed: Gemini API error: 500 Internal Server Error"

-----------------------------------------------------------------------------
(* Claims about startup *)

\* The server has started and answers calls
Running == pOut.op = "startup" /\ pOut.pc = "running"

\* The .env file sets the key and the environment of the process does not
OnlyInDotenv(key) == key \in DOMAIN pIn.dotenv /\ key \notin DOMAIN pIn.env

\* C24: the capacity and the output directory set in the .env file are the
\* values the running server enforces: the file is loaded before the rate
\* limiter and the path guard read their configuration.
C24_DotenvEnforced ==
    Running =>
        /\ OnlyInDotenv("RATE_LIMIT_PER_MINUTE")
              => /\ RATE_LIMIT_MAX = Number(pIn.dotenv["RATE_LIMIT_PER_MINUTE"])
                 /\ \A k \in 1..Len(history) : history[k].accepted <=> k <= RATE_LIMIT_MAX
        /\ OnlyInDotenv("OUTPUT_DIR")
              => pOut.OUTPUT_DIR = pIn.dotenv["OUTPUT_DIR"]

-----------------------------------------------------------------------------
(* Claims about the order of the path check and the generation *)

\* The last call is a valid generate_image call on a configured server whose
\* output_path resolves to a path that does not start with the output
\* directory
FailsPathCheck ==
    /\ last.done
    /\ last.name = "generate_image"
    /\ last.admitted
    /\ GenerateInput.ok
    /\ GenerateInput.input.output_path # ""
    /\ ~startsWith(resolve(PROJECT_ROOT, GenerateInput.input.output_path), OUTPUTS_PATH)

\* C25: in generate_image the output_path of the caller is checked before
\* the provider is called: a call whose output_path fails the check ends
\* with the error of the check, has sent no request and has written no
\* file.
C25_PathCheckedFirst ==
    FailsPathCheck =>
        /\ last.requests = <<>>
        /\ last.wrote = {}
        /\ Payload = [ok |-> FALSE,
                      error |-> "Invalid output path: must be within outputs directory"]
        /\ \A i \in 1..Len(last.log) :
              last.log[i].message \in {"Generating image:", "Tool generate_image failed:"}

\* generate_image with the output_path ../../etc/passwd, on a server with a
\* credential, has failed the check
C25_Witness ==
    /\ FailsPathCheck
    /\ apiKey = KeyA
    /\ GenerateInput.input.output_path = "../../etc/passwd"
    /\ last.thrown.message = "Invalid output path: must be within outputs directory"
    /\ last.requests = <<>>

-----------------------------------------------------------------------------
(* Claims about the prompt text *)

\* The text that describes a style
Descriptor ==
    ("3d" :> "3D rendered style") @@ ("flat" :> "flat design style")
    @@ ("photoreal" :> "photorealistic style") @@ ("anime" :> "anime art style")
    @@ ("pixel" :> "pixel art style") @@ ("watercolor" :> "watercolor")

\* The text of the one part of the request body
PromptText == pOut.r.contents[1].parts[1].text

\* C26: the prompt sent is the caller's prompt with the style text and ', '
\* before it exactly when a style other than 'illustration' is set, and
\* ', transparent background' after it exactly when the background is
\* 'transparent'; with 'illustration' and 'solid' it is the caller's prompt;
\* the request body has no field for style or background.
C26_PromptFolding ==
    Built =>
        /\ PromptText =
              (IF pIn.style \notin {"", "illustration"}
               THEN Descriptor[pIn.style] \o ", " ELSE "")
              \o pIn.prompt
              \o (IF pIn.background = "transparent" THEN ", transparent background" ELSE "")
        /\ (pIn.style = "illustration" /\ pIn.background = "solid") => PromptText = pIn.prompt
        /\ DOMAIN pOut.r = {"contents", "generationConfig"}
        /\ Len(pOut.r.contents) = 1
        /\ DOMAIN pOut.r.contents[1] = {"parts"}
        /\ Len(pOut.r.contents[1].parts) = 1
        /\ DOMAIN pOut.r.contents[1].parts[1] = {"text"}
        /\ DOMAIN pOut.r.generationConfig = {"responseModalities", "imageConfig"}
        /\ DOMAIN pOut.r.generationConfig.imageConfig = {"aspectRatio", "imageSize"}

\* The prompt 'a banana' with the style '3d' and a transparent background
\* has been built into one text
C26_Witness ==
    /\ Built
    /\ pIn.prompt = "a banana"
    /\ pIn.style = "3d"
    /\ pIn.background = "transparent"
    /\ PromptText = "3D rendered style, a banana, transparent background"

-----------------------------------------------------------------------------
(* Claims about the steps of the rate limiter *)

\* The timestamps of a list that are less than 60 seconds before t
InWindow(list, t) == SelectSeq(list, LAMBDA x : t - x < 60 * 1000)

\* C27: a rate-limit check prunes the timestamps older than the window,
\* rejects when as many as the capacity remain and otherwise records the
\* new one; a rejected call records nothing, so a call made 60 seconds or
\* more after the oldest timestamp still kept for its tool is accepted,
\* however many calls were rejected in between.
C27_Step ==
    calls' = calls + 1 =>
        LET kept == Timestamps(rateLimitMap, last'.name) IN
        /\ last'.admitted <=> Len(InWindow(kept, now)) < RATE_LIMIT_MAX
        /\ last'.admitted =>
              rateLimitMap'[last'.name] = Append(InWindow(kept, now), now)
        /\ ~last'.admitted => rateLimitMap' = rateLimitMap
        /\ (kept # <<>> /\ now - kept[1] >= 60 * 1000) => last'.admitted

C27_RejectedNeverProlongs == [][C27_Step]_vars

\* With capacity 1: a call is accepted, a call 59999 ms later is rejected,
\* and a call 60 seconds or more after the first is accepted and is the only
\* timestamp kept
C27_Witness ==
    /\ RATE_LIMIT_MAX = 1
    /\ Len(history) = 3
    /\ \A k \in 1..3 : history[k].name = "beautify_screenshot"
    /\ history[1].accepted /\ history[1].at = 0
    /\ ~history[2].accepted /\ history[2].at = 59999
    /\ history[3].accepted /\ history[3].at >= 60000
    /\ rateLimitMap["beautify_screenshot"] = <<history[3].at>>

\* The accepted calls to a tool that lie less than 60 seconds before t
AcceptedInWindow(tool, t) ==
    {j \in 1..Len(history) : /\ history[j].name = tool
                             /\ history[j].accepted
                             /\ t - history[j].at < 60 * 1000}

\* C28: the rate windows of the tools are independent: a call to a tool,
\* accepted or rejected, leaves the timestamps of every other tool as they
\* were, and a call is rejected only for accepted calls to its own tool.
C28_Step ==
    calls' = calls + 1 =>
        /\ DOMAIN rateLimitMap \subseteq DOMAIN rateLimitMap'
        /\ DOMAIN rateLimitMap' \subseteq (DOMAIN rateLimitMap) \cup {last'.name}
        /\ \A k \in (DOMAIN rateLimitMap) \ {last'.name} : rateLimitMap'[k] = rateLimitMap[k]
        /\ ~last'.admitted =>
              Cardinality(AcceptedInWindow(last'.name, now)) >= RATE_LIMIT_MAX

C28_WindowsPerTool == [][C28_Step]_vars

\* With capacity 1, while beautify_screenshot is throttled, a call to
\* another tool name at the same time is counted in a window of its own
C28_Witness ==
    /\ RATE_LIMIT_MAX = 1
    /\ Len(history) = 3
    /\ history[1].name = "beautify_screenshot" /\ history[1].accepted
    /\ history[2].name = "beautify_screenshot" /\ ~history[2].accepted
    /\ history[3].name = "resize_image" /\ history[3].accepted
    /\ history[3].at = history[2].at
    /\ rateLimitMap["beautify_screenshot"] = <<history[1].at>>
    /\ rateLimitMap["resize_image"] = <<history[3].at>>

-----------------------------------------------------------------------------
(* Claims about files after a failed generation *)

\* C30: when the provider call of generate_image, generate_icon or
\* generate_hero fails, for a missing credential, a network error, an error
\* status or a body that does not parse, the call creates, changes and
\* deletes no file: files and directories are as they were before the call.
C30_Step ==
    (/\ calls' = calls + 1
     /\ last'.name \in {"generate_image", "generate_icon", "generate_hero"}
     /\ \/ last'.thrown.message = NotConfiguredMessage
        \/ startsWith(last'.thrown.message, "Image generation failed: "))
    => /\ files' = files
       /\ dirs' = dirs
       /\ last'.wrote = {}
       /\ last'.response.content[1].json.ok = FALSE

C30_FailedGenerationWritesNothing == [][C30_Step]_vars

\* generate_image whose provider request got no response has failed and has
\* left no file and no directory
C30_Witness ==
    /\ last.done
    /\ last.name = "generate_image"
    /\ last.env.remote.kind = "neterr"
    /\ last.thrown.message = "Image generation failed: fetch failed"
    /\ Len(last.requests) = 1
    /\ files = <<>>
    /\ dirs = {}

====
